---- MODULE Spec2Model ----
(***************************************************************************)
(* pdpIQ: the extraction -> scoring -> recommendation pipeline.            *)
(*                                                                         *)
(* Conventions of the model                                                *)
(*  - A JavaScript number that carries points or a score is held in TENTHS *)
(*    of a point (7.5 points is 75), so the halves the code produces       *)
(*    (weights * 0.5, weights / 2) stay integers.  totalScore, priorities, *)
(*    counts and the *Score fields of the extraction result are plain      *)
(*    integers.  Context multipliers are held in tenths (1.5 is 15) and    *)
(*    category weights in hundredths (0.23 is 23).                         *)
(*  - NaN stands for JavaScript's NaN and for undefined where a number is  *)
(*    expected (undefined becomes NaN in arithmetic and every comparison   *)
(*    with it is false).  All other numbers of the model are >= 0.         *)
(*  - A JavaScript string is a record [words, len]: its lower-cased words  *)
(*    and its length; the empty/absent string is NoText.  An object that   *)
(*    may be null is either NullObj or a record.                           *)
(***************************************************************************)
EXTENDS Integers, Sequences, FiniteSets, TLC

VARIABLES
    context,                \* SidePanelApp.selectedContext / ScoringEngine.context
    extractedData,          \* SidePanelApp.currentData (performFullExtraction's result)
    imageVerification,      \* verifyImageFormat's answer, NullObj when not verified
    aiDiscoverabilityData,  \* fetchAIDiscoverabilityData's answer, NullObj when not fetched
    scoreResult,            \* SidePanelApp.scoreResult (NullObj before calculateScore)
    recommendations,        \* SidePanelApp.recommendations
    pc,                     \* position of processResults: "extracted", "scored", "done"
    templates,              \* the RECOMMENDATION_TEMPLATES table the engine is built with
    document,               \* content script: the page's JSON-LD scripts and microdata items
    jsonLdCache,            \* content script: _jsonLdCache, NullObj when null
    extraction,             \* content script: the result performFullExtraction is building
    passPc,                 \* content script: position inside the EXTRACT_DATA handler
    currentRequestId,       \* SidePanelApp.currentRequestId, 0 (null) before the first analysis
    requestsStarted,        \* side panel: number of request ids generated so far
    awaitingTab,            \* startAnalysis calls suspended at "await chrome.tabs.query"
    analysisTimeoutId,      \* SidePanelApp.analysisTimeoutId, 0 when null
    timers,                 \* pending setTimeout callbacks, by the request they were set for
    currentData,            \* SidePanelApp.currentData as the listener stores it
    view,                   \* what the side panel shows
    inFlight,               \* messages sent and not yet delivered
    processed,              \* messages that reached processResults, in order
    selectedContext,        \* SidePanelApp.selectedContext, by the request that chose it
    runs,                   \* calls of processResults suspended at an await
    displayed,              \* where the score result shown last came from, NullObj when none
    shownError,             \* the last error processResults showed, NullObj when none
    workerPc,               \* service worker: position in answering a fetch request
    fetchRequest,           \* service worker: the request message being answered
    fetchOutcome,           \* what the network did with the request's fetches
    fetchResult,            \* what the fetch function's promise settled with
    responses               \* sendResponse calls made for the request

scoringVars == <<context, extractedData, imageVerification, aiDiscoverabilityData,
                 scoreResult, recommendations, pc, templates>>

extractionVars == <<document, jsonLdCache, extraction, passPc>>

panelVars == <<currentRequestId, requestsStarted, awaitingTab, analysisTimeoutId, timers,
               currentData, view, inFlight, processed, selectedContext, runs, displayed,
               shownError>>

processVars == <<selectedContext, runs, displayed, shownError>>

workerVars == <<workerPc, fetchRequest, fetchOutcome, fetchResult, responses>>

vars == <<scoringVars, extractionVars, panelVars, workerVars>>

----------------------------------------------------------------------------
(* JavaScript values *)

NaN == -1

NullObj == [isNull |-> TRUE]

NoText == [words |-> << >>, len |-> 0]

\* the parts of the extension a specification leaves at rest
ScoringAtRest ==
    /\ context = "hybrid"
    /\ extractedData = NullObj
    /\ imageVerification = NullObj
    /\ aiDiscoverabilityData = NullObj
    /\ scoreResult = NullObj
    /\ recommendations = << >>
    /\ pc = "idle"
    /\ templates = NullObj

WorkerAtRest ==
    /\ workerPc = "idle"
    /\ fetchRequest = NullObj
    /\ fetchOutcome = NullObj
    /\ fetchResult = NullObj
    /\ responses = << >>

ExtractionAtRest ==
    /\ document = [jsonLd |-> << >>, microdata |-> << >>]
    /\ jsonLdCache = NullObj
    /\ extraction = NullObj
    /\ passPc = "idle"

PanelAtRest ==
    /\ currentRequestId = 0
    /\ requestsStarted = 0
    /\ awaitingTab = {}
    /\ analysisTimeoutId = 0
    /\ timers = {}
    /\ currentData = NullObj
    /\ view = "context"
    /\ inFlight = {}
    /\ processed = << >>
    /\ selectedContext = 0
    /\ runs = {}
    /\ displayed = NullObj
    /\ shownError = NullObj

Truthy(s) == s.len > 0

\* String.prototype.includes at word granularity: needle occurs contiguously in hay
Includes(hay, needle) ==
    \E i \in 0..(Len(hay.words) - Len(needle.words)) :
        \A j \in 1..Len(needle.words) : hay.words[i + j] = needle.words[j]

\* Math.round(n / d) for n >= 0, d > 0 (halves round up)
RoundDiv(n, d) == (2 * n + d) \div (2 * d)

Plus(a, b) == IF a = NaN \/ b = NaN THEN NaN ELSE a + b

\* Math.min
MathMin(a, b) == IF a = NaN \/ b = NaN THEN NaN ELSE IF a < b THEN a ELSE b

\* a < b, a <= b, a >= b on JavaScript numbers: false when either is NaN
JsLt(a, b) == a # NaN /\ b # NaN /\ a < b
JsLe(a, b) == a # NaN /\ b # NaN /\ a <= b
JsGe(a, b) == a # NaN /\ b # NaN /\ a >= b

----------------------------------------------------------------------------
(* weights.js *)

Contexts == {"want", "need", "hybrid"}

Categories == <<"structuredData", "protocolMeta", "contentQuality",
                "contentStructure", "authorityTrust", "aiDiscoverability">>

\* the weights with AI Discoverability raised to 0.20 and nothing lowered
CATEGORY_WEIGHTS_Unbalanced ==
    [structuredData |-> 23, protocolMeta |-> 18, contentQuality |-> 23,
     contentStructure |-> 13, authorityTrust |-> 13, aiDiscoverability |-> 20]

\* in hundredths
CATEGORY_WEIGHTS ==
    [structuredData |-> 23, protocolMeta |-> 18, contentQuality |-> 23,
     contentStructure |-> 13, authorityTrust |-> 13, aiDiscoverability |-> 10]

\* in tenths
CONTEXT_MULTIPLIERS ==
    [want |->
        [emotionalBenefitCopy |-> 15, technicalSpecifications |-> 6,
         compatibilityInfo |-> 4, socialProof |-> 14, certifications |-> 5,
         reviewCount |-> 14, reviewRating |-> 13, benefitStatements |-> 15,
         warrantyInfo |-> 7, comparisonContent |-> 6],
     need |->
        [emotionalBenefitCopy |-> 5, technicalSpecifications |-> 15,
         compatibilityInfo |-> 20, socialProof |-> 8, certifications |-> 16,
         reviewCount |-> 8, reviewRating |-> 10, benefitStatements |-> 5,
         warrantyInfo |-> 14, comparisonContent |-> 14],
     hybrid |->
        [emotionalBenefitCopy |-> 10, technicalSpecifications |-> 10,
         compatibilityInfo |-> 10, socialProof |-> 10, certifications |-> 10,
         reviewCount |-> 10, reviewRating |-> 10, benefitStatements |-> 10,
         warrantyInfo |-> 10, comparisonContent |-> 10]]

\* in points, as in the source
FACTOR_WEIGHTS ==
    [structuredData |->
        [productSchema |-> 30, offerSchema |-> 20, aggregateRating |-> 15,
         reviewSchema |-> 10, faqSchema |-> 10, breadcrumbSchema |-> 5,
         organizationSchema |-> 5, imageSchema |-> 5],
     protocolMeta |->
        [ogImage |-> 20, ogImageFormat |-> 15, ogTitle |-> 10,
         ogDescription |-> 10, ogType |-> 5, twitterCard |-> 10,
         twitterImage |-> 5, canonical |-> 10, metaDescription |-> 10,
         robotsAllowsIndex |-> 5],
     contentQuality |->
        [descriptionLength |-> 15, descriptionQuality |-> 10,
         specificationCount |-> 10, specificationDetail |-> 5,
         featureCount |-> 10, faqPresence |-> 10, dimensions |-> 5,
         materials |-> 5, careInstructions |-> 3, warrantyInfo |-> 7,
         compatibilityInfo |-> 10, comparisonContent |-> 5],
     contentStructure |->
        [h1Presence |-> 15, headingHierarchy |-> 12, semanticHTML |-> 12,
         contentRatio |-> 12, tableStructure |-> 10, listStructure |-> 8,
         ariaLabels |-> 6, primaryImageAlt |-> 10, allImagesAlt |-> 8,
         jsDependency |-> 10, readability |-> 8],
     authorityTrust |->
        [reviewCount |-> 25, averageRating |-> 20, reviewRecency |-> 15,
         reviewDepth |-> 10, brandClarity |-> 15, certifications |-> 10,
         awards |-> 5],
     aiDiscoverability |->
        [aiCrawlerAccess |-> 35, contentFreshness |-> 30,
         llmsTxtPresence |-> 20, dateSignalsPresent |-> 15]]

\* weights.<key> of FACTOR_WEIGHTS.<cat>, in tenths of a point; a key the
\* table does not have reads as undefined
Weight(cat, key) ==
    IF key \in DOMAIN FACTOR_WEIGHTS[cat] THEN 10 * FACTOR_WEIGHTS[cat][key] ELSE NaN

GRADE_THRESHOLDS == [A |-> 90, B |-> 80, C |-> 70, D |-> 60, F |-> 0]

\* getGrade with strict comparisons
getGrade_Strict(score) ==
    IF score # NaN /\ score > GRADE_THRESHOLDS.A THEN "A"
    ELSE IF score # NaN /\ score > GRADE_THRESHOLDS.B THEN "B"
    ELSE IF score # NaN /\ score > GRADE_THRESHOLDS.C THEN "C"
    ELSE IF score # NaN /\ score > GRADE_THRESHOLDS.D THEN "D"
    ELSE "F"

getGrade(score) ==
    IF JsGe(score, GRADE_THRESHOLDS.A) THEN "A"
    ELSE IF JsGe(score, GRADE_THRESHOLDS.B) THEN "B"
    ELSE IF JsGe(score, GRADE_THRESHOLDS.C) THEN "C"
    ELSE IF JsGe(score, GRADE_THRESHOLDS.D) THEN "D"
    ELSE "F"

\* CONTEXT_MULTIPLIERS[context]?.[factor] || 1.0
getContextMultiplier(ctx, factor) ==
    IF ctx \in DOMAIN CONTEXT_MULTIPLIERS
       /\ factor \in DOMAIN CONTEXT_MULTIPLIERS[ctx]
       /\ CONTEXT_MULTIPLIERS[ctx][factor] # 0
    THEN CONTEXT_MULTIPLIERS[ctx][factor]
    ELSE 10

\* this.multipliers = CONTEXT_MULTIPLIERS[context] || CONTEXT_MULTIPLIERS.hybrid
Multipliers(ctx) ==
    IF ctx \in DOMAIN CONTEXT_MULTIPLIERS THEN CONTEXT_MULTIPLIERS[ctx]
    ELSE CONTEXT_MULTIPLIERS.hybrid

----------------------------------------------------------------------------
(* content-script.js: what the extractors return for the facts of a page *)

Min(a, b) == IF a < b THEN a ELSE b

\* analyzeDescription
analyzeDescription(wordCount, emotional, benefit, technical) ==
    [wordCount |-> wordCount,
     hasEmotionalLanguage |-> emotional,
     hasBenefitStatements |-> benefit,
     hasTechnicalTerms |-> technical,
     lengthScore |->
        IF wordCount < 100 THEN RoundDiv(wordCount * 50, 100)
        ELSE IF wordCount < 200 THEN 50 + RoundDiv((wordCount - 100) * 30, 100)
        ELSE IF wordCount < 400 THEN 80 + RoundDiv((wordCount - 200) * 20, 200)
        ELSE 100]

\* extractSpecifications: count specs found, withUnit of the first 30 carry a unit
extractSpecifications(count, withUnit) ==
    [count |-> count,
     items |-> [length |-> Min(count, 30), withUnit |-> withUnit],
     countScore |->
        IF count < 5 THEN RoundDiv(count * 25, 5)
        ELSE IF count < 10 THEN 25 + RoundDiv((count - 5) * 25, 5)
        ELSE IF count < 20 THEN 50 + RoundDiv((count - 10) * 30, 10)
        ELSE 100]

\* extractFeatures
extractFeatures(count) ==
    [count |-> count,
     countScore |->
        IF count < 3 THEN RoundDiv(count * 25, 3)
        ELSE IF count < 5 THEN 25 + RoundDiv((count - 3) * 25, 2)
        ELSE IF count < 10 THEN 50 + RoundDiv((count - 5) * 30, 5)
        ELSE 100]

\* extractFaqContent
extractFaqContent(count) ==
    [count |-> count,
     countScore |->
        IF count < 3 THEN RoundDiv(count * 50, 3)
        ELSE IF count < 5 THEN 50 + RoundDiv((count - 3) * 25, 2)
        ELSE 100]

\* analyzeTextMetrics: 100 - (words / sentences - 15) * 3, clamped to 0..100, rounded
analyzeTextMetrics(words, sentences) ==
    [totalWords |-> words,
     totalSentences |-> sentences,
     readabilityScore |->
        IF words > 0 /\ sentences > 0
        THEN IF 145 * sentences <= 3 * words THEN 0
             ELSE IF 45 * sentences >= 3 * words THEN 100
             ELSE RoundDiv(145 * sentences - 3 * words, sentences)
        ELSE 60]

\* analyzeHeadings: h1Count <h1> elements, h1Text the text of the first
analyzeHeadings(h1Count, h1Text) ==
    [h1 |-> [count |-> h1Count, texts |-> IF h1Count > 0 THEN <<h1Text>> ELSE << >>],
     hasH1 |-> h1Count > 0,
     hasSingleH1 |-> h1Count = 1,
     hierarchyIssues |-> (IF h1Count = 0 THEN <<"Missing H1">> ELSE << >>)
                         \o (IF h1Count > 1 THEN <<"Multiple H1s">> ELSE << >>),
     hierarchyValid |-> h1Count = 1]

\* analyzeSemanticHTML
analyzeSemanticHTML(main, article, section, header, nav) ==
    [hasMain |-> main,
     hasArticle |-> article,
     score |-> Min(100, (IF main THEN 30 ELSE 0) + (IF article THEN 25 ELSE 0)
                        + (IF section THEN 20 ELSE 0) + (IF header THEN 10 ELSE 0)
                        + (IF nav THEN 10 ELSE 0))]

\* calculateContentRatio: percent is 100 * main text length / body text length
calculateContentRatio(mainContentFound, percent) ==
    IF ~mainContentFound THEN [mainContentFound |-> FALSE, ratio |-> 0, score |-> 0]
    ELSE [mainContentFound |-> TRUE, ratio |-> percent,
          score |-> IF percent > 50 THEN 100 ELSE 2 * percent]

\* analyzeTables
analyzeTables(tableCount, hasProper) ==
    [tableCount |-> tableCount,
     hasProperTables |-> hasProper,
     score |-> IF hasProper THEN 100 ELSE IF tableCount > 0 THEN 50 ELSE 0]

\* analyzeLists
analyzeLists(listCount) ==
    [hasProperLists |-> listCount > 0,
     score |-> IF listCount > 0 THEN 100 ELSE 25]

\* analyzeImages: altCoverage is the fraction num / den;
\* primary is "none", "alt" or "noalt"
analyzeImages(totalCount, withAlt, primary) ==
    [totalCount |-> totalCount,
     withMeaningfulAlt |-> withAlt,
     altCoverage |-> IF totalCount > 0 THEN [num |-> withAlt, den |-> totalCount]
                     ELSE [num |-> 1, den |-> 1],
     primaryImage |-> IF primary = "none" THEN NullObj
                      ELSE [hasAlt |-> primary = "alt"]]

\* assessJSDependency
assessJSDependency(hasFramework, mainInJs) ==
    [dependencyLevel |-> IF mainInJs THEN "high"
                         ELSE IF hasFramework THEN "medium" ELSE "low",
     score |-> IF mainInJs THEN 40 ELSE IF hasFramework THEN 60 ELSE 100]

\* extractReviewSignals: rating in tenths of a star, 0 when there is none
\* (null and 0 are both falsy and compare alike); recent is "true", "false"
\* or "null"
extractReviewSignals(count, rating, recent, averageReviewLength, reviewsAnalyzed) ==
    [count |-> count,
     averageRating |-> rating,
     hasReviews |-> count > 0,
     hasRecentReviews |-> recent,
     averageReviewLength |-> averageReviewLength,
     reviewsAnalyzed |-> reviewsAnalyzed,
     countScore |->
        IF count = 0 THEN 0
        ELSE IF count < 10 THEN RoundDiv(count * 25, 10)
        ELSE IF count < 50 THEN 25 + RoundDiv((count - 10) * 35, 40)
        ELSE IF count < 200 THEN 60 + RoundDiv((count - 50) * 25, 150)
        ELSE 100,
     ratingScore |->
        IF rating = 0 THEN 0
        ELSE IF rating < 30 THEN 25
        ELSE IF rating < 35 THEN 50
        ELSE IF rating < 40 THEN 75
        ELSE IF rating < 45 THEN 90
        ELSE 100,
     depthScore |->
        IF averageReviewLength < 50 THEN 25
        ELSE IF averageReviewLength < 100 THEN 50
        ELSE IF averageReviewLength < 200 THEN 75
        ELSE 100]

\* extractBrandSignals
extractBrandSignals(brandName, inH1, inTitle) ==
    LET named == Truthy(brandName)
        h  == named /\ inH1
        t  == named /\ inTitle
    IN [name |-> brandName, inH1 |-> h, inTitle |-> t,
        clarity |-> IF ~named THEN "missing"
                    ELSE IF h /\ t THEN "excellent"
                    ELSE IF h \/ t THEN "good" ELSE "present",
        score |-> IF ~named THEN 0
                  ELSE 40 + (IF h THEN 30 ELSE 0) + (IF t THEN 30 ELSE 0)]

\* extractCertifications
extractCertifications(count) ==
    [found |-> count > 0, count |-> count,
     score |-> IF count > 0 THEN Min(100, 50 + count * 15) ELSE 0]

\* extractAwards
extractAwards(count) ==
    [found |-> count > 0, count |-> count,
     score |-> IF count > 0 THEN Min(100, 40 + count * 20) ELSE 0]

----------------------------------------------------------------------------
(* scoring-engine.js *)

\* rec.name, or dflt when the object has no such property (undefined)
Field(rec, name, dflt) == IF name \in DOMAIN rec THEN rec[name] ELSE dflt

Factor(name, status, points, maxPoints, critical, contextual) ==
    [name |-> name, status |-> status, points |-> points,
     maxPoints |-> maxPoints, critical |-> critical, contextual |-> contextual]

\* Math.round((score / 100) * weight), weight and result in tenths of a point
Scaled(score, weight) == 10 * RoundDiv(score * (weight \div 10), 100)

\* Math.round(points * multiplier), points in tenths holding an integer,
\* multiplier in tenths, result in tenths
TimesMultiplier(points, mult) == 10 * RoundDiv((points \div 10) * mult, 10)

\* rawScore: the sum of the points pushed, NaN as soon as one of them is NaN
SumPoints(factors) ==
    LET RECURSIVE Sum(_)
        Sum(i) == IF i = 0 THEN 0 ELSE Sum(i - 1) + factors[i].points
    IN IF \E i \in 1..Len(factors) : factors[i].points = NaN THEN NaN
       ELSE Sum(Len(factors))

scoreStructuredData(data) ==
    LET w(key)      == Weight("structuredData", key)
        schemas     == data.schemas
        product     == schemas.product
        hasProduct  == product # NullObj
        fieldSum    == (IF Truthy(product.name) THEN 6 ELSE 0)
                     + (IF product.description THEN 5 ELSE 0)
                     + (IF product.image THEN 5 ELSE 0)
                     + (IF product.hasOffer THEN 5 ELSE 0)
                     + (IF product.brand THEN 3 ELSE 0)
                     + (IF product.gtin \/ product.mpn \/ product.sku THEN 3 ELSE 0)
                     + (IF product.hasRating THEN 3 ELSE 0)
        productScore == IF hasProduct
                        THEN 10 * RoundDiv(fieldSum * (w("productSchema") \div 10), 30)
                        ELSE 0
        productStatus == IF ~hasProduct THEN "fail"
                         ELSE IF 10 * productScore >= w("productSchema") * 8 THEN "pass"
                         ELSE IF 10 * productScore >= w("productSchema") * 5 THEN "warning"
                         ELSE "fail"
        hasOffer    == schemas.offer # NullObj
        hasRating   == schemas.aggregateRating # NullObj
        hasReviews  == schemas.reviews > 0
        hasFaq      == schemas.faq # NullObj /\ schemas.faq.questionCount > 0
        hasBreadcrumb == schemas.breadcrumb # NullObj
        hasOrg      == schemas.organization # NullObj \/ schemas.brand # NullObj
        hasImageSchema == schemas.images > 0
        Binary(name, has, key, critical) ==
            Factor(name, IF has THEN "pass" ELSE "fail",
                   IF has THEN w(key) ELSE 0, w(key), critical, FALSE)
        factors ==
            << Factor("Product Schema", productStatus, productScore,
                      w("productSchema"), TRUE, FALSE),
               Binary("Offer Schema", hasOffer, "offerSchema", TRUE),
               Binary("AggregateRating Schema", hasRating, "aggregateRating", FALSE),
               Binary("Review Schema", hasReviews, "reviewSchema", FALSE),
               Binary("FAQ Schema", hasFaq, "faqSchema", FALSE),
               Binary("Breadcrumb Schema", hasBreadcrumb, "breadcrumbSchema", FALSE),
               Binary("Organization/Brand Schema", hasOrg, "organizationSchema", FALSE),
               Binary("ImageObject Schema", hasImageSchema, "imageSchema", FALSE) >>
    IN [score |-> SumPoints(factors), factors |-> factors,
        weight |-> CATEGORY_WEIGHTS.structuredData]

\* url.endsWith('.webp') || url.includes('.webp?')
UrlLooksWebP(url) == url.ext = "webp"

\* url.match(/\.(jpe?g|png|gif)(\?|$)/)
UrlLooksValidFormat(url) == url.ext \in {"jpg", "jpeg", "png", "gif"}

\* the factor when the URL's extension is consulted before the verification
ogImageFormatFactor_UrlFirst(og, iv) ==
    LET max == Weight("protocolMeta", "ogImageFormat")
        res ==
            IF og.image.present /\ UrlLooksValidFormat(og.image)
            THEN [points |-> max, status |-> "pass"]
            ELSE IF iv # NullObj /\ Field(iv, "isWebP", FALSE)
            THEN [points |-> 0, status |-> "fail"]
            ELSE IF iv # NullObj /\ Field(iv, "isValidFormat", FALSE)
            THEN [points |-> max, status |-> "pass"]
            ELSE IF iv # NullObj THEN [points |-> max \div 2, status |-> "warning"]
            ELSE [points |-> 0, status |-> "unknown"]
    IN Factor("og:image Format", res.status, res.points, max, TRUE, FALSE)

\* the 'og:image Format' factor of scoreProtocolMeta
ogImageFormatFactor(og, iv) ==
    LET max == Weight("protocolMeta", "ogImageFormat")
        hasOgImage == og.image.present
        verified == iv # NullObj
        res ==
            IF verified THEN
                IF Field(iv, "isWebP", FALSE) THEN [points |-> 0, status |-> "fail"]
                ELSE IF Field(iv, "isValidFormat", FALSE)
                     THEN [points |-> max, status |-> "pass"]
                ELSE [points |-> max \div 2, status |-> "warning"]
            ELSE IF hasOgImage THEN
                IF UrlLooksWebP(og.image) THEN [points |-> 0, status |-> "fail"]
                ELSE IF UrlLooksValidFormat(og.image)
                     THEN [points |-> max, status |-> "pass"]
                ELSE [points |-> 0, status |-> "unknown"]
            ELSE [points |-> 0, status |-> "unknown"]
    IN Factor("og:image Format", res.status, res.points, max, TRUE, FALSE)

scoreProtocolMeta(data, iv) ==
    LET w(key)      == Weight("protocolMeta", key)
        og          == data.openGraph
        twitter     == data.twitterCards
        \* weights.x * 0.7
        Seventy(x)  == (x * 7) \div 10
        hasOgImage  == og.image.present
        hasOgTitle  == Truthy(og.title)
        titleOptimal == og.title.len > 0 /\ og.title.len <= 60
        hasOgDesc   == Truthy(og.description)
        descOptimal == og.description.len >= 100 /\ og.description.len <= 200
        isProductType == og.type \in {"product", "og:product"}
        hasTwitterCard == twitter.card # ""
        isLargeImage == twitter.card = "summary_large_image"
        hasCanonical == data.canonical.present
        canonicalIsValid == Field(data.canonical, "matchesCurrentUrl", FALSE)
                            \/ Field(data.canonical, "isProductCanonical", FALSE)
        hasMetaDesc == Truthy(data.standard.description)
        metaDescOptimal == data.standard.description.len >= 120
                           /\ data.standard.description.len <= 160
        isBlocked   == data.robots.isBlocked
        Graded(name, has, optimal, key) ==
            Factor(name,
                   IF has THEN (IF optimal THEN "pass" ELSE "warning") ELSE "fail",
                   IF has THEN (IF optimal THEN w(key) ELSE Seventy(w(key))) ELSE 0,
                   w(key), FALSE, FALSE)
        Binary(name, has, key, critical) ==
            Factor(name, IF has THEN "pass" ELSE "fail",
                   IF has THEN w(key) ELSE 0, w(key), critical, FALSE)
        factors ==
            << Binary("og:image Present", hasOgImage, "ogImage", TRUE),
               ogImageFormatFactor(og, iv),
               Graded("og:title", hasOgTitle, titleOptimal, "ogTitle"),
               Graded("og:description", hasOgDesc, descOptimal, "ogDescription"),
               Binary("og:type = product", isProductType, "ogType", FALSE),
               Graded("Twitter Card", hasTwitterCard, isLargeImage, "twitterCard"),
               Binary("Twitter Image", twitter.image, "twitterImage", FALSE),
               Graded("Canonical URL", hasCanonical, canonicalIsValid, "canonical"),
               Graded("Meta Description", hasMetaDesc, metaDescOptimal, "metaDescription"),
               Factor("Robots Allows Indexing",
                      IF isBlocked THEN "fail" ELSE "pass",
                      IF isBlocked THEN 0 ELSE w("robotsAllowsIndex"),
                      w("robotsAllowsIndex"), isBlocked, FALSE) >>
    IN [score |-> SumPoints(factors), factors |-> factors,
        weight |-> CATEGORY_WEIGHTS.protocolMeta]

\* Math.round(weight * num / den) for a weight in tenths holding an integer
Portion(weight, num, den) == 10 * RoundDiv((weight \div 10) * num, den)

scoreContentQuality(ctx, data, aiSignals) ==
    LET w(key)   == Weight("contentQuality", key)
        mult     == Multipliers(ctx)
        desc     == data.description
        specs    == data.specifications
        features == data.features
        faq      == data.faq
        details  == data.productDetails
        wordCount == desc.wordCount
        descScore == IF desc.lengthScore # 0
                     THEN Scaled(desc.lengthScore, w("descriptionLength")) ELSE 0
        \* (weights.descriptionQuality / 2) * multiplier, summed, then rounded
        qualitySum ==
            (IF desc.hasBenefitStatements \/ desc.hasEmotionalLanguage
             THEN (w("descriptionQuality") \div 20) * mult.emotionalBenefitCopy ELSE 0)
            + (IF desc.hasTechnicalTerms
               THEN (w("descriptionQuality") \div 20) * mult.technicalSpecifications ELSE 0)
        descQualityScore == MathMin(w("descriptionQuality"), 10 * RoundDiv(qualitySum, 10))
        specCount == specs.count
        specScore1 == IF specs.countScore # 0
                      THEN Scaled(specs.countScore, w("specificationCount")) ELSE 0
        specScore2 == TimesMultiplier(specScore1, mult.technicalSpecifications)
        specScore  == MathMin((w("specificationCount") * 15) \div 10, specScore2)
        featureCount == features.count
        featureScore == IF features.countScore # 0
                        THEN Scaled(features.countScore, w("featureCount")) ELSE 0
        faqCount == faq.count
        faqScore == IF faq.countScore # 0
                    THEN Scaled(faq.countScore, w("faqPresence")) ELSE 0
        dimensions0 == IF details.hasDimensions THEN w("dimensions") ELSE 0
        dimensionsScore == IF ctx = "need" THEN TimesMultiplier(dimensions0, 13)
                           ELSE dimensions0
        warrantyScore == TimesMultiplier(IF details.hasWarranty THEN w("warrantyInfo") ELSE 0,
                                         mult.warrantyInfo)
        compatScore == TimesMultiplier(
                           IF details.hasCompatibility THEN w("compatibilityInfo") ELSE 0,
                           mult.compatibilityInfo)
        itemCount == specs.items.length
        withUnit  == specs.items.withUnit
        \* specDetailRatio >= 0.3 and specDetailRatio > 0
        ratioHigh == itemCount > 0 /\ 10 * withUnit >= 3 * itemCount
        ratioSome == itemCount > 0 /\ withUnit > 0
        specDetailScore == IF ratioHigh THEN w("specificationDetail")
                           ELSE IF ratioSome THEN Portion(w("specificationDetail"), 5, 10)
                           ELSE 0
        answerFormat == Field(aiSignals, "answerFormat", NullObj)
        hasComparison == answerFormat # NullObj /\ answerFormat.hasComparison
        comparisonScore ==
            MathMin(w("comparisonContent"),
                    TimesMultiplier(IF hasComparison THEN w("comparisonContent") ELSE 0,
                                    IF mult.comparisonContent # 0
                                    THEN mult.comparisonContent ELSE 10))
        Flag(name, has, key) ==
            Factor(name, IF has THEN "pass" ELSE "fail",
                   IF has THEN w(key) ELSE 0, w(key), FALSE, FALSE)
        factors ==
            << Factor("Description Length",
                      IF wordCount >= 100 THEN "pass"
                      ELSE IF wordCount >= 50 THEN "warning" ELSE "fail",
                      descScore, w("descriptionLength"), FALSE, FALSE),
               Factor("Description Quality",
                      IF 10 * descQualityScore >= 7 * w("descriptionQuality")
                      THEN "pass" ELSE "warning",
                      descQualityScore, w("descriptionQuality"), FALSE, TRUE),
               Factor("Specifications",
                      IF specCount >= 5 THEN "pass"
                      ELSE IF specCount >= 3 THEN "warning" ELSE "fail",
                      MathMin(w("specificationCount"), specScore),
                      w("specificationCount"), FALSE, TRUE),
               Factor("Features List",
                      IF featureCount >= 5 THEN "pass"
                      ELSE IF featureCount >= 3 THEN "warning" ELSE "fail",
                      featureScore, w("featureCount"), FALSE, FALSE),
               Factor("FAQ Section",
                      IF faqCount >= 3 THEN "pass"
                      ELSE IF faqCount > 0 THEN "warning" ELSE "fail",
                      faqScore, w("faqPresence"), FALSE, FALSE),
               Factor("Dimensions/Size",
                      IF details.hasDimensions THEN "pass" ELSE "fail",
                      MathMin(w("dimensions"), dimensionsScore),
                      w("dimensions"), FALSE, ctx = "need"),
               Flag("Materials", details.hasMaterials, "materials"),
               Flag("Care Instructions", details.hasCareInstructions, "careInstructions"),
               Factor("Warranty Information",
                      IF details.hasWarranty THEN "pass" ELSE "fail",
                      MathMin(w("warrantyInfo"), warrantyScore),
                      w("warrantyInfo"), FALSE, TRUE),
               Factor("Compatibility Information",
                      IF details.hasCompatibility THEN "pass" ELSE "fail",
                      MathMin(w("compatibilityInfo"), compatScore),
                      w("compatibilityInfo"), FALSE, TRUE),
               Factor("Specification Detail",
                      IF ratioHigh THEN "pass" ELSE IF ratioSome THEN "warning" ELSE "fail",
                      specDetailScore, w("specificationDetail"), FALSE, TRUE),
               Factor("Comparison Content",
                      IF hasComparison THEN "pass" ELSE "fail",
                      comparisonScore, w("comparisonContent"), FALSE, TRUE) >>
    IN [score |-> MathMin(1000, SumPoints(factors)), factors |-> factors,
        weight |-> CATEGORY_WEIGHTS.contentQuality]

scoreContentStructure(data, textMetrics) ==
    LET w(key)   == Weight("contentStructure", key)
        headings == data.headings
        semantic == data.semanticHTML
        ratio    == data.contentRatio
        tables   == data.tables
        lists    == data.lists
        a11y     == data.accessibility
        images   == data.images
        js       == data.jsDependency
        Half(x)  == (x * 5) \div 10
        h1Score  == IF headings.hasSingleH1 THEN w("h1Presence")
                    ELSE IF headings.hasH1 THEN Half(w("h1Presence")) ELSE 0
        hierarchyScore == IF headings.hierarchyValid THEN w("headingHierarchy")
                          ELSE Half(w("headingHierarchy"))
        FromScore(score, key) == IF score # 0 THEN Scaled(score, w(key)) ELSE 0
        primaryHasAlt == images.primaryImage # NullObj /\ images.primaryImage.hasAlt
        altCoverage == images.altCoverage
        allAltScore == Portion(w("allImagesAlt"), altCoverage.num, altCoverage.den)
        readabilityRaw == textMetrics.readabilityScore
        jsScore == IF js.score # 0 THEN Scaled(js.score, w("jsDependency"))
                   ELSE w("jsDependency")
        factors ==
            << Factor("H1 Heading",
                      IF headings.hasSingleH1 THEN "pass"
                      ELSE IF headings.hasH1 THEN "warning" ELSE "fail",
                      h1Score, w("h1Presence"), FALSE, FALSE),
               Factor("Heading Hierarchy",
                      IF headings.hierarchyValid THEN "pass" ELSE "warning",
                      hierarchyScore, w("headingHierarchy"), FALSE, FALSE),
               Factor("Semantic HTML",
                      IF semantic.hasMain THEN "pass"
                      ELSE IF semantic.hasArticle THEN "warning" ELSE "fail",
                      FromScore(semantic.score, "semanticHTML"),
                      w("semanticHTML"), FALSE, FALSE),
               Factor("Content-to-Chrome Ratio",
                      IF ratio.ratio >= 50 THEN "pass"
                      ELSE IF ratio.ratio >= 30 THEN "warning" ELSE "fail",
                      FromScore(ratio.score, "contentRatio"),
                      w("contentRatio"), FALSE, FALSE),
               Factor("Table Structure",
                      IF tables.hasProperTables THEN "pass"
                      ELSE IF tables.tableCount > 0 THEN "warning" ELSE "fail",
                      FromScore(tables.score, "tableStructure"),
                      w("tableStructure"), FALSE, FALSE),
               Factor("List Structure",
                      IF lists.hasProperLists THEN "pass" ELSE "fail",
                      FromScore(lists.score, "listStructure"),
                      w("listStructure"), FALSE, FALSE),
               Factor("ARIA Labels",
                      IF a11y.ariaLabels > 0 THEN "pass" ELSE "fail",
                      IF a11y.ariaLabels > 0 THEN w("ariaLabels") ELSE 0,
                      w("ariaLabels"), FALSE, FALSE),
               Factor("Primary Image Alt Text",
                      IF primaryHasAlt THEN "pass" ELSE "fail",
                      IF primaryHasAlt THEN w("primaryImageAlt") ELSE 0,
                      w("primaryImageAlt"), FALSE, FALSE),
               Factor("Image Alt Coverage",
                      IF 10 * altCoverage.num >= 9 * altCoverage.den THEN "pass"
                      ELSE IF 10 * altCoverage.num >= 5 * altCoverage.den THEN "warning"
                      ELSE "fail",
                      allAltScore, w("allImagesAlt"), FALSE, FALSE),
               Factor("Readability",
                      IF readabilityRaw >= 60 THEN "pass"
                      ELSE IF readabilityRaw >= 40 THEN "warning" ELSE "fail",
                      Scaled(readabilityRaw, w("readability")),
                      w("readability"), FALSE, FALSE),
               Factor("JavaScript Dependency",
                      IF js.dependencyLevel = "low" THEN "pass"
                      ELSE IF js.dependencyLevel = "medium" THEN "warning" ELSE "fail",
                      jsScore, w("jsDependency"), FALSE, FALSE) >>
    IN [score |-> MathMin(1000, SumPoints(factors)), factors |-> factors,
        weight |-> CATEGORY_WEIGHTS.contentStructure]

scoreAuthorityTrust(ctx, data) ==
    LET w(key)  == Weight("authorityTrust", key)
        mult    == Multipliers(ctx)
        reviews == data.reviews
        brand   == data.brand
        certs   == data.certifications
        awards  == data.awards
        FromScore(score, key) == IF score # 0 THEN Scaled(score, w(key)) ELSE 0
        reviewCountScore == TimesMultiplier(FromScore(reviews.countScore, "reviewCount"),
                                            mult.reviewCount)
        ratingScore == TimesMultiplier(FromScore(reviews.ratingScore, "averageRating"),
                                       mult.reviewRating)
        recency ==
            IF reviews.hasRecentReviews = "true"
            THEN [points |-> w("reviewRecency"), status |-> "pass"]
            ELSE IF reviews.hasRecentReviews = "false"
            THEN [points |-> Portion(w("reviewRecency"), 5, 10), status |-> "warning"]
            ELSE [points |-> 0, status |-> "fail"]
        avgLength == reviews.averageReviewLength
        analyzed  == reviews.reviewsAnalyzed > 0
        depthScore == IF analyzed THEN FromScore(reviews.depthScore, "reviewDepth") ELSE 0
        depthStatus == IF analyzed /\ avgLength >= 100 THEN "pass"
                       ELSE IF analyzed /\ avgLength >= 50 THEN "warning" ELSE "fail"
        certScore == TimesMultiplier(FromScore(certs.score, "certifications"),
                                     mult.certifications)
        factors ==
            << Factor("Review Count",
                      IF reviews.count >= 50 THEN "pass"
                      ELSE IF reviews.count >= 10 THEN "warning" ELSE "fail",
                      MathMin((w("reviewCount") * 15) \div 10, reviewCountScore),
                      w("reviewCount"), FALSE, TRUE),
               Factor("Average Rating",
                      IF reviews.averageRating >= 40 THEN "pass"
                      ELSE IF reviews.averageRating >= 35 THEN "warning" ELSE "fail",
                      MathMin(w("averageRating"), ratingScore),
                      w("averageRating"), FALSE, TRUE),
               Factor("Review Recency", recency.status, recency.points,
                      w("reviewRecency"), FALSE, FALSE),
               Factor("Review Depth", depthStatus, depthScore,
                      w("reviewDepth"), FALSE, FALSE),
               Factor("Brand Clarity",
                      IF brand.clarity = "excellent" THEN "pass"
                      ELSE IF brand.clarity = "good" THEN "warning" ELSE "fail",
                      FromScore(brand.score, "brandClarity"),
                      w("brandClarity"), FALSE, FALSE),
               Factor("Certifications",
                      IF certs.count > 0 THEN "pass" ELSE "fail",
                      MathMin(w("certifications"), certScore),
                      w("certifications"), FALSE, TRUE),
               Factor("Awards",
                      IF awards.count > 0 THEN "pass" ELSE "fail",
                      IF awards.count > 0 THEN w("awards") ELSE 0,
                      w("awards"), FALSE, FALSE) >>
    IN [score |-> MathMin(1000, SumPoints(factors)), factors |-> factors,
        weight |-> CATEGORY_WEIGHTS.authorityTrust]

\* a === b || a.includes(b) || b.includes(a) on lower-cased, trimmed text
Aligned(a, b) == Includes(a, b) \/ Includes(b, a)

\* Math.round(maxPoints * num / den) where maxPoints may be undefined
PortionOf(maxPoints, num, den) ==
    IF maxPoints = NaN THEN NaN ELSE (10 * RoundDiv(maxPoints * num, 10 * den))

scoreEntityConsistency(data, maxPoints) ==
    LET product == data.structuredData.schemas.product
        productName == IF product = NullObj THEN NoText ELSE product.name
        h1Texts == data.contentStructure.headings.h1.texts
        h1Text  == IF Len(h1Texts) > 0 THEN h1Texts[1] ELSE NoText
        ogTitle == data.metaTags.openGraph.title
        metaDesc == data.metaTags.standard.description
        pageTitle == data.pageInfo.title
        \* every word of the model's vocabulary is longer than two characters
        nameWords == { productName.words[i] : i \in 1..Len(productName.words) }
        matchedWords == { x \in nameWords :
                            \E i \in 1..Len(metaDesc.words) : metaDesc.words[i] = x }
        \* matchedWords.length >= Math.ceil(nameWords.length * 0.6)
        metaMatches == Includes(metaDesc, productName)
                       \/ 10 * Cardinality(matchedWords) >= 6 * Cardinality(nameWords)
        matches == (IF Truthy(h1Text) /\ Aligned(h1Text, productName) THEN 1 ELSE 0)
                 + (IF Truthy(ogTitle) /\ Aligned(ogTitle, productName) THEN 1 ELSE 0)
                 + (IF Truthy(metaDesc) /\ metaMatches THEN 1 ELSE 0)
                 + (IF Truthy(pageTitle) /\ Aligned(pageTitle, productName) THEN 1 ELSE 0)
        score == PortionOf(maxPoints, matches, 4)
    IN IF ~Truthy(productName)
       THEN Factor("Entity Consistency", "fail", 0, maxPoints, FALSE, FALSE)
       ELSE Factor("Entity Consistency",
                   IF matches >= 3 THEN "pass"
                   ELSE IF matches >= 2 THEN "warning" ELSE "fail",
                   score, maxPoints, FALSE, FALSE)

scoreAnswerFormatContent(data, maxPoints) ==
    LET answerFormat == Field(data.aiDiscoverability, "answerFormat", NullObj)
        signals == (IF answerFormat.bestForCount > 0 THEN 1 ELSE 0)
                 + (IF answerFormat.hasComparison THEN 1 ELSE 0)
                 + (IF answerFormat.hasHowTo THEN 1 ELSE 0)
                 + (IF answerFormat.useCaseCount > 0 THEN 1 ELSE 0)
    IN IF answerFormat = NullObj
       THEN Factor("Answer-Format Content", "fail", 0, maxPoints, FALSE, FALSE)
       ELSE Factor("Answer-Format Content",
                   IF signals >= 3 THEN "pass"
                   ELSE IF signals >= 1 THEN "warning" ELSE "fail",
                   PortionOf(maxPoints, signals, 4), maxPoints, FALSE, FALSE)

scoreProductIdentifiers(data, maxPoints) ==
    LET product == data.structuredData.schemas.product
        identifiers == (IF product.gtin THEN 1 ELSE 0) + (IF product.mpn THEN 1 ELSE 0)
                     + (IF product.sku THEN 1 ELSE 0)
        score == IF identifiers >= 2 THEN maxPoints
                 ELSE IF identifiers = 1 THEN PortionOf(maxPoints, 5, 10) ELSE 0
    IN IF product = NullObj
       THEN Factor("Product Identifiers", "fail", 0, maxPoints, FALSE, FALSE)
       ELSE Factor("Product Identifiers",
                   IF identifiers >= 2 THEN "pass"
                   ELSE IF identifiers = 1 THEN "warning" ELSE "fail",
                   score, maxPoints, FALSE, FALSE)

\* scoreAICrawlerAccess without the test of robotsData.error
scoreAICrawlerAccess_ErrorIgnored(robotsData, maxPoints) ==
    LET accessible == Field(robotsData, "accessible", "undefined")
        blockedCount == Field(robotsData, "blockedCrawlers", 0)
        allowedCount == Field(robotsData, "allowedCrawlers", 0)
        totalMajor == blockedCount + allowedCount
        res ==
            IF accessible = "false"
            THEN [status |-> "pass", score |-> maxPoints]
            ELSE IF accessible = "true"
            THEN IF blockedCount = 0 THEN [status |-> "pass", score |-> maxPoints]
                 ELSE IF blockedCount < totalMajor
                 THEN [status |-> "warning",
                       score |-> PortionOf(maxPoints, allowedCount, totalMajor)]
                 ELSE [status |-> "fail", score |-> 0]
            ELSE [status |-> "unknown", score |-> 0]
    IN Factor("AI Crawler Access", res.status, res.score, maxPoints,
              res.status = "fail", FALSE)

\* robotsData.accessible is "true", "false" or "undefined"
scoreAICrawlerAccess(robotsData, maxPoints) ==
    LET accessible == Field(robotsData, "accessible", "undefined")
        hasError   == Field(robotsData, "error", FALSE)
        blockedCount == Field(robotsData, "blockedCrawlers", 0)
        allowedCount == Field(robotsData, "allowedCrawlers", 0)
        totalMajor == blockedCount + allowedCount
        res ==
            IF accessible = "false" /\ hasError
            THEN [status |-> "warning", score |-> (maxPoints * 5) \div 10]
            ELSE IF accessible = "false"
            THEN [status |-> "pass", score |-> maxPoints]
            ELSE IF accessible = "true"
            THEN IF blockedCount = 0 THEN [status |-> "pass", score |-> maxPoints]
                 ELSE IF blockedCount < totalMajor
                 THEN [status |-> "warning",
                       score |-> PortionOf(maxPoints, allowedCount, totalMajor)]
                 ELSE [status |-> "fail", score |-> 0]
            ELSE [status |-> "unknown", score |-> 0]
    IN Factor("AI Crawler Access", res.status, res.score, maxPoints,
              res.status = "fail", FALSE)

scoreLlmsTxt(llmsData, maxPoints) ==
    LET found == Field(llmsData, "found", FALSE)
        txt   == Field(llmsData, "llmsTxt", FALSE)
        full  == Field(llmsData, "llmsFullTxt", FALSE)
        res == IF found /\ txt THEN [status |-> "pass", score |-> maxPoints]
               ELSE IF found /\ full
               THEN [status |-> "pass", score |-> PortionOf(maxPoints, 8, 10)]
               ELSE [status |-> "fail", score |-> 0]
    IN Factor("llms.txt Presence", res.status, res.score, maxPoints, FALSE, FALSE)

\* networkData?.x || {}
NetworkPart(networkData, part) ==
    IF networkData = NullObj THEN [absent |-> TRUE] ELSE networkData[part]

scoreAIDiscoverability(data, networkData) ==
    LET w(key) == Weight("aiDiscoverability", key)
        factors ==
            << scoreAICrawlerAccess(NetworkPart(networkData, "robots"), w("aiCrawlerAccess")),
               scoreEntityConsistency(data, w("entityConsistency")),
               scoreAnswerFormatContent(data, w("answerFormatContent")),
               scoreProductIdentifiers(data, w("productIdentifiers")),
               scoreLlmsTxt(NetworkPart(networkData, "llms"), w("llmsTxtPresence")) >>
    IN [score |-> MathMin(1000, SumPoints(factors)), factors |-> factors,
        weight |-> CATEGORY_WEIGHTS.aiDiscoverability]

\* Math.round of the weighted sum; scores are tenths, weights hundredths
WeightedTotal(categoryScores) ==
    LET RECURSIVE Sum(_)
        Sum(i) == IF i = 0 THEN 0
                  ELSE Sum(i - 1) + categoryScores[Categories[i]].score
                                    * CATEGORY_WEIGHTS[Categories[i]]
    IN IF \E i \in 1..Len(Categories) : categoryScores[Categories[i]].score = NaN
       THEN NaN
       ELSE RoundDiv(Sum(Len(Categories)), 1000)

\* scoreStructuredData(undefined): data?.schemas?.product is undefined,
\* "product !== null" holds and product.name is read of undefined
calculateScoreThrows(data) == "structuredData" \notin DOMAIN data

calculateScore(ctx, data, iv, networkData) ==
    LET categoryScores ==
            [structuredData |-> scoreStructuredData(data.structuredData),
             protocolMeta |-> scoreProtocolMeta(data.metaTags, iv),
             contentQuality |-> scoreContentQuality(ctx, data.contentQuality,
                                                    data.aiDiscoverability),
             contentStructure |-> scoreContentStructure(data.contentStructure,
                                                        data.contentQuality.textMetrics),
             authorityTrust |-> scoreAuthorityTrust(ctx, data.trustSignals),
             aiDiscoverability |-> scoreAIDiscoverability(data, networkData)]
        totalScore == WeightedTotal(categoryScores)
    IN [totalScore |-> totalScore,
        grade |-> getGrade(totalScore),
        context |-> ctx,
        categoryScores |-> categoryScores,
        jsDependent |-> data.contentStructure.jsDependency.dependencyLevel = "high"]

----------------------------------------------------------------------------
(* recommendation-rules.js *)

PRIORITY_MATRIX ==
    [high   |-> [low |-> 1, medium |-> 2, high |-> 3],
     medium |-> [low |-> 2, medium |-> 3, high |-> 4],
     low    |-> [low |-> 3, medium |-> 4, high |-> 5]]

\* PRIORITY_MATRIX[impact]?.[effort] || 5
calculatePriority(impact, effort) ==
    IF impact \in DOMAIN PRIORITY_MATRIX /\ effort \in DOMAIN PRIORITY_MATRIX[impact]
    THEN PRIORITY_MATRIX[impact][effort]
    ELSE 5

Template(impact, effort, category) ==
    [impact |-> impact, effort |-> effort, category |-> category]

RECOMMENDATION_TEMPLATES ==
    [x \in {"og-image-missing", "og-image-webp", "robots-blocking"}
        |-> Template("high", "low", "protocolMeta")]
    @@ [x \in {"og-title-missing", "og-description-missing"}
        |-> Template("medium", "low", "protocolMeta")]
    @@ [x \in {"twitter-card-missing"} |-> Template("low", "low", "protocolMeta")]
    @@ [x \in {"product-schema-missing"} |-> Template("high", "medium", "structuredData")]
    @@ [x \in {"offer-schema-missing"} |-> Template("high", "low", "structuredData")]
    @@ [x \in {"rating-schema-missing"} |-> Template("medium", "low", "structuredData")]
    @@ [x \in {"faq-schema-missing"} |-> Template("medium", "medium", "structuredData")]
    @@ [x \in {"breadcrumb-schema-missing"} |-> Template("low", "low", "structuredData")]
    @@ [x \in {"description-short"} |-> Template("high", "medium", "contentQuality")]
    @@ [x \in {"specs-missing", "faq-content-missing"}
        |-> Template("medium", "medium", "contentQuality")]
    @@ [x \in {"features-missing", "compatibility-missing"}
        |-> Template("medium", "low", "contentQuality")]
    @@ [x \in {"h1-missing", "primary-image-alt-missing"}
        |-> Template("medium", "low", "contentStructure")]
    @@ [x \in {"multiple-h1"} |-> Template("low", "low", "contentStructure")]
    @@ [x \in {"semantic-html-missing"} |-> Template("medium", "medium", "contentStructure")]
    @@ [x \in {"images-alt-low"} |-> Template("low", "medium", "contentStructure")]
    @@ [x \in {"reviews-missing"} |-> Template("high", "high", "authorityTrust")]
    @@ [x \in {"reviews-low-count"} |-> Template("medium", "high", "authorityTrust")]
    @@ [x \in {"brand-unclear"} |-> Template("medium", "low", "authorityTrust")]
    @@ [x \in {"certifications-missing"} |-> Template("low", "low", "authorityTrust")]
    @@ [x \in {"ai-crawler-blocked"} |-> Template("high", "low", "aiDiscoverability")]
    @@ [x \in {"llms-txt-missing", "entity-consistency-low", "product-identifiers-missing"}
        |-> Template("medium", "low", "aiDiscoverability")]
    @@ [x \in {"answer-format-missing"} |-> Template("medium", "medium", "aiDiscoverability")]

----------------------------------------------------------------------------
(* recommendation-engine.js *)

Rec(id, impact, effort, category, priority) ==
    [id |-> id, impact |-> impact, effort |-> effort, category |-> category,
     priority |-> priority]

\* null for an id that has no template
createRecommendation(templateId) ==
    IF templateId \notin DOMAIN templates THEN NullObj
    ELSE LET template == templates[templateId]
         IN Rec(templateId, template.impact, template.effort, template.category,
                calculatePriority(template.impact, template.effort))

\* { ...rec, impact }: the impact replaced, the template's priority kept
Override_ImpactOnly(rec, impact, priority) ==
    IF rec = NullObj THEN [impact |-> impact]
    ELSE [rec EXCEPT !.impact = impact]

\* { ...rec, impact, priority }
Override(rec, impact, priority) ==
    IF rec = NullObj THEN [impact |-> impact, priority |-> priority]
    ELSE [rec EXCEPT !.impact = impact, !.priority = priority]

\* recs.push(rec) when cond holds
PushIf(cond, rec) == IF cond THEN <<rec>> ELSE << >>

checkProtocolMetaIssues(data, iv) ==
    LET og        == data.metaTags.openGraph
        robots    == data.metaTags.robots
        twitter   == data.metaTags.twitterCards
        canonical == data.metaTags.canonical
        standard  == data.metaTags.standard
    IN PushIf(robots.isBlocked, createRecommendation("robots-blocking"))
       \o PushIf(~og.image.present, createRecommendation("og-image-missing"))
       \o PushIf(og.image.present /\ iv # NullObj /\ Field(iv, "isWebP", FALSE),
                 createRecommendation("og-image-webp"))
       \o PushIf(~Truthy(og.title), createRecommendation("og-title-missing"))
       \o PushIf(~Truthy(og.description), createRecommendation("og-description-missing"))
       \o PushIf(twitter.card = "", createRecommendation("twitter-card-missing"))
       \o PushIf(~canonical.present,
                 Rec("canonical-missing", "low", "low", "protocolMeta",
                     calculatePriority("low", "low")))
       \o PushIf(~Truthy(standard.description),
                 Rec("meta-description-missing", "medium", "low", "protocolMeta",
                     calculatePriority("medium", "low")))

\* the FAQ branch with two independent tests instead of if / else if
faqSchemaIssues_Independent(noFaq, faqCount) ==
    (IF noFaq THEN <<createRecommendation("faq-schema-missing")>> ELSE << >>)
    \o (IF noFaq /\ faqCount = 0
        THEN <<Rec("faq-schema-and-content-missing", "medium", "medium",
                   "structuredData", calculatePriority("medium", "medium"))>>
        ELSE << >>)

\* the FAQ branch of checkStructuredDataIssues
faqSchemaIssues(noFaq, faqCount) ==
    IF noFaq /\ faqCount > 0
    THEN <<createRecommendation("faq-schema-missing")>>
    ELSE IF noFaq /\ faqCount = 0
    THEN <<Rec("faq-schema-and-content-missing", "medium", "medium",
               "structuredData", calculatePriority("medium", "medium"))>>
    ELSE << >>

checkStructuredDataIssues(data) ==
    LET schemas    == data.structuredData.schemas
        reviews    == data.trustSignals.reviews
        faqContent == data.contentQuality.faq
        noProduct  == schemas.product = NullObj
        noFaq      == schemas.faq = NullObj
    IN PushIf(noProduct, createRecommendation("product-schema-missing"))
       \o PushIf(~noProduct /\ schemas.offer = NullObj,
                 createRecommendation("offer-schema-missing"))
       \o PushIf(schemas.aggregateRating = NullObj /\ reviews.count > 0,
                 createRecommendation("rating-schema-missing"))
       \o faqSchemaIssues(noFaq, faqContent.count)
       \o PushIf(schemas.breadcrumb = NullObj,
                 createRecommendation("breadcrumb-schema-missing"))

\* the guard without its count > 0 half
faqContentLow_Unguarded(faq) == faq.count < 3

\* the guard of faq-content-missing in checkContentQualityIssues
faqContentLow(faq) == faq.count > 0 /\ faq.count < 3

checkContentQualityIssues(ctx, data) ==
    LET desc     == data.contentQuality.description
        specs    == data.contentQuality.specifications
        features == data.contentQuality.features
        faq      == data.contentQuality.faq
        details  == data.contentQuality.productDetails
        template == templates["description-short"]
        specsImpact == IF getContextMultiplier(ctx, "technicalSpecifications") > 10
                       THEN "high" ELSE "medium"
        compatRaised == getContextMultiplier(ctx, "compatibilityInfo") > 10
        warrantyImpact == IF getContextMultiplier(ctx, "warrantyInfo") > 10
                          THEN "medium" ELSE "low"
    IN PushIf(desc.wordCount < 100,
              Rec("description-short", template.impact, template.effort,
                  template.category,
                  calculatePriority(template.impact, template.effort)))
       \o PushIf(specs.count < 5,
                 Rec("specs-low", specsImpact, "medium", "contentQuality",
                     calculatePriority(specsImpact, "medium")))
       \o PushIf(features.count < 3, createRecommendation("features-missing"))
       \o PushIf(faqContentLow(faq),
                 createRecommendation("faq-content-missing"))
       \o PushIf(~details.hasCompatibility,
                 IF compatRaised
                 THEN Override(createRecommendation("compatibility-missing"),
                               "high", calculatePriority("high", "low"))
                 ELSE createRecommendation("compatibility-missing"))
       \o PushIf(~details.hasWarranty,
                 Rec("warranty-missing", warrantyImpact, "low", "contentQuality",
                     calculatePriority(warrantyImpact, "low")))

checkContentStructureIssues(data) ==
    LET headings == data.contentStructure.headings
        semantic == data.contentStructure.semanticHTML
        images   == data.contentStructure.images
    IN PushIf(~headings.hasH1, createRecommendation("h1-missing"))
       \o PushIf(headings.h1.count > 1, createRecommendation("multiple-h1"))
       \o PushIf(~semantic.hasMain /\ ~semantic.hasArticle,
                 createRecommendation("semantic-html-missing"))
       \o PushIf(images.primaryImage # NullObj /\ ~images.primaryImage.hasAlt,
                 createRecommendation("primary-image-alt-missing"))
       \o PushIf(10 * images.altCoverage.num < 8 * images.altCoverage.den
                 /\ images.totalCount > 3,
                 createRecommendation("images-alt-low"))
       \o PushIf(Len(headings.hierarchyIssues) > 0,
                 Rec("heading-hierarchy", "low", "low", "contentStructure",
                     calculatePriority("low", "low")))

checkAuthorityTrustIssues(ctx, data) ==
    LET reviews == data.trustSignals.reviews
        brand   == data.trustSignals.brand
        certs   == data.trustSignals.certifications
        reviewImpact == IF getContextMultiplier(ctx, "reviewCount") > 10
                        THEN "high" ELSE "medium"
    IN (IF ~reviews.hasReviews \/ reviews.count = 0
        THEN <<createRecommendation("reviews-missing")>>
        ELSE IF reviews.count < 10
        THEN <<Override(createRecommendation("reviews-low-count"), reviewImpact,
                        calculatePriority(reviewImpact, "high"))>>
        ELSE << >>)
       \o (IF ~Truthy(brand.name) \/ brand.clarity = "missing"
           THEN <<createRecommendation("brand-unclear")>>
           ELSE IF brand.clarity = "present" /\ ~brand.inH1 /\ ~brand.inTitle
           THEN <<Rec("brand-visibility", "low", "low", "authorityTrust",
                      calculatePriority("low", "low"))>>
           ELSE << >>)
       \o PushIf(~certs.found /\ getContextMultiplier(ctx, "certifications") > 10,
                 Override(createRecommendation("certifications-missing"), "medium",
                          calculatePriority("medium", "low")))

\* what one iteration of the loop over aiDiscoverability.factors pushes
aiFactorIssues(factor) ==
    PushIf(factor.name = "AI Crawler Access"
           /\ (factor.status = "fail"
               \/ (factor.status = "warning"
                   /\ JsLt(2 * factor.points, factor.maxPoints))),
           createRecommendation("ai-crawler-blocked"))
    \o PushIf(factor.name = "Entity Consistency"
              /\ factor.status \in {"fail", "warning"},
              createRecommendation("entity-consistency-low"))
    \o PushIf(factor.name = "Answer-Format Content" /\ factor.status = "fail",
              createRecommendation("answer-format-missing"))
    \o PushIf(factor.name = "Product Identifiers" /\ factor.status = "fail",
              createRecommendation("product-identifiers-missing"))
    \o PushIf(factor.name = "llms.txt Presence" /\ factor.status = "fail",
              createRecommendation("llms-txt-missing"))

checkAIDiscoverabilityIssues(result) ==
    LET factors == result.categoryScores.aiDiscoverability.factors
        RECURSIVE Loop(_)
        Loop(i) == IF i = 0 THEN << >> ELSE Loop(i - 1) \o aiFactorIssues(factors[i])
    IN Loop(Len(factors))

\* impactOrder[impact] || 2
impactRank(impact) ==
    LET impactOrder == [high |-> 0, medium |-> 1, low |-> 2]
    IN IF impact \in DOMAIN impactOrder /\ impactOrder[impact] # 0
       THEN impactOrder[impact] ELSE 2

\* the comparator handed to Array.prototype.sort
compareRecs(a, b) ==
    IF a.priority # b.priority THEN a.priority - b.priority
    ELSE impactRank(a.impact) - impactRank(b.impact)

\* Array.prototype.sort is stable: equal elements keep their order
StableSort(seq) ==
    LET Insert(sorted, e) ==
            LET k == Cardinality({i \in 1..Len(sorted) : compareRecs(sorted[i], e) <= 0})
            IN SubSeq(sorted, 1, k) \o <<e>> \o SubSeq(sorted, k + 1, Len(sorted))
        RECURSIVE Sort(_)
        Sort(n) == IF n = 0 THEN << >> ELSE Insert(Sort(n - 1), seq[n])
    IN Sort(Len(seq))

prioritizeRecommendations(recs) ==
    StableSort(SelectSeq(recs, LAMBDA r : r # NullObj))

\* the recommendations in the order generateRecommendations pushes them
pushedRecommendations(result, data, iv) ==
    LET ctx == IF result.context = "" THEN "hybrid" ELSE result.context
    IN checkProtocolMetaIssues(data, iv)
       \o checkStructuredDataIssues(data)
       \o checkContentQualityIssues(ctx, data)
       \o checkContentStructureIssues(data)
       \o checkAuthorityTrustIssues(ctx, data)
       \o checkAIDiscoverabilityIssues(result)

\* checkContentQualityIssues reads RECOMMENDATION_TEMPLATES['description-short']
\* itself; template.impact of an undefined template is a TypeError
generateRecommendationsThrows(data) ==
    /\ "description-short" \notin DOMAIN templates
    /\ data.contentQuality.description.wordCount < 100

generateRecommendations(result, data, iv) ==
    prioritizeRecommendations(pushedRecommendations(result, data, iv))

----------------------------------------------------------------------------
(* The pages analysed: what performFullExtraction returns for them *)

MaxFaqCount == 5
MaxH1Count == 2
MaxImages == 4
MaxCertifications == 4
MaxAwards == 2

Text(words, len) == [words |-> words, len |-> len]

Url(ext) == [present |-> TRUE, ext |-> ext]
NoUrl == [present |-> FALSE, ext |-> ""]

ProductName == Text(<<"acme", "widget">>, 11)
PageTitles == {Text(<<"acme", "widget", "pro">>, 15),
               Text(<<"acme", "widget", "pro">>, 72),
               Text(<<"summer", "sale">>, 11),
               NoText}
Descriptions == {Text(<<"the", "acme", "widget", "pro">>, 140),
                 Text(<<"the", "acme", "range">>, 110),
                 Text(<<"summer", "sale">>, 40),
                 NoText}

\* a URL: its host with or without "www.", the segments of its path, and
\* whether the path ends with a slash
PageUrl(www, path, slash) == [www |-> www, path |-> path, slash |-> slash]

\* window.location.href of the page analysed
CurrentUrl == PageUrl(TRUE, <<"collections", "x", "products", "y">>, TRUE)

\* the href of the canonical link: none, the page's URL, the page's URL
\* written without "www." and slash, the product URL the page's path ends
\* with, or another URL
CanonicalUrl(canonical) ==
    CASE canonical = "same" -> CurrentUrl
      [] canonical = "bare" -> PageUrl(FALSE, CurrentUrl.path, FALSE)
      [] canonical = "parent" -> PageUrl(TRUE, <<"products", "y">>, FALSE)
      [] canonical = "other" -> PageUrl(TRUE, <<"products", "z">>, FALSE)
      [] OTHER -> PageUrl(FALSE, << >>, FALSE)

\* origin + pathname, without the trailing slash and without "www."
normalizeUrl(url) == [url EXCEPT !.www = FALSE, !.slash = FALSE]

\* the canonical object extractMetaTags builds
extractCanonical(canonical) ==
    [url |-> CanonicalUrl(canonical),
     present |-> canonical # "none",
     matchesCurrentUrl |-> canonical # "none"
                           /\ normalizeUrl(CanonicalUrl(canonical)) = normalizeUrl(CurrentUrl)]

\* extractMetaTags; canonical is "none", "same", "bare", "parent" or "other"
extractMetaTags(ogTitle, ogDescription, ogImage, ogType, card, twitterImage, description, canonical, noindex) ==
    [openGraph |-> [title |-> ogTitle, description |-> ogDescription,
                    image |-> ogImage, type |-> ogType],
     twitterCards |-> [card |-> card, image |-> twitterImage],
     standard |-> [description |-> description],
     canonical |-> extractCanonical(canonical),
     robots |-> [isBlocked |-> noindex]]

MetaRich ==
    extractMetaTags(Text(<<"acme", "widget", "pro">>, 15),
                    Text(<<"the", "acme", "widget", "pro">>, 140),
                    Url("jpg"), "product", "summary_large_image", TRUE,
                    Text(<<"the", "acme", "widget", "pro">>, 140), "same", FALSE)

MetaEmpty ==
    extractMetaTags(NoText, NoText, NoUrl, "", "", FALSE, NoText, "none", FALSE)

MetaStates ==
    {MetaRich, MetaEmpty}
    \cup {[MetaRich EXCEPT !.openGraph.image = u] :
            u \in {Url("webp"), Url("png"), Url(""), NoUrl}}
    \cup {[MetaEmpty EXCEPT !.openGraph.image = u] : u \in {Url("webp"), Url("jpg")}}
    \cup {[MetaRich EXCEPT !.openGraph.title = t] : t \in PageTitles}
    \cup {[MetaRich EXCEPT !.openGraph.description = d] : d \in Descriptions}
    \cup {[MetaRich EXCEPT !.standard.description = d] : d \in Descriptions}
    \cup {[MetaRich EXCEPT !.openGraph.type = t] : t \in {"", "website", "og:product"}}
    \cup {[MetaRich EXCEPT !.twitterCards.card = c] : c \in {"", "summary"}}
    \cup {[MetaRich EXCEPT !.twitterCards.image = FALSE]}
    \cup {[MetaRich EXCEPT !.canonical = extractCanonical(c)] :
            c \in {"none", "bare", "parent", "other"}}
    \cup {[m EXCEPT !.robots.isBlocked = TRUE] : m \in {MetaRich, MetaEmpty}}

\* the schemas object filled by categorizeSchemas and categorizeMicrodataSchemas;
\* reviews and images hold the arrays' lengths
Product(name, rich, gtin, mpn, sku) ==
    [name |-> name, description |-> rich, image |-> rich, hasOffer |-> rich,
     brand |-> rich, gtin |-> gtin, mpn |-> mpn, sku |-> sku, hasRating |-> rich]

Products ==
    {NullObj}
    \cup {Product(n, r, FALSE, FALSE, FALSE) : n \in {NoText, ProductName}, r \in BOOLEAN}
    \cup {Product(n, TRUE, TRUE, FALSE, FALSE) : n \in {NoText, ProductName}}
    \cup {Product(n, TRUE, TRUE, m, TRUE) : n \in {NoText, ProductName}, m \in BOOLEAN}

FaqSchemas == {NullObj} \cup {[questionCount |-> n] : n \in {0, MaxFaqCount}}

Schemas(product, others, faq) ==
    [product |-> product,
     offer |-> IF others THEN [length |-> 1] ELSE NullObj,
     aggregateRating |-> IF others THEN [ratingValue |-> 45] ELSE NullObj,
     reviews |-> IF others THEN 2 ELSE 0,
     faq |-> faq,
     breadcrumb |-> IF others THEN [itemCount |-> 3] ELSE NullObj,
     organization |-> NullObj,
     brand |-> IF others THEN [name |-> "acme"] ELSE NullObj,
     images |-> IF others THEN 1 ELSE 0]

SchemaRich == Schemas(Product(NoText, TRUE, FALSE, FALSE, FALSE), TRUE,
                      [questionCount |-> MaxFaqCount])
SchemaEmpty == Schemas(NullObj, FALSE, NullObj)

\* extractProductDetails
ProductDetails(dimensions, materials, care, warranty, compatibility) ==
    [hasDimensions |-> dimensions, hasMaterials |-> materials,
     hasCareInstructions |-> care, hasWarranty |-> warranty,
     hasCompatibility |-> compatibility]

\* extractContentQuality
ContentQuality(description, specifications, features, faq, details, textMetrics) ==
    [description |-> description, specifications |-> specifications,
     features |-> features, faq |-> faq, productDetails |-> details,
     textMetrics |-> textMetrics]

WordCounts == {0, 40, 50, 99, 100, 150, 399, 400}
SpecCounts == {0, 3, 4, 5, 8, 14, 20, 40}
FeatureCounts == {0, 2, 3, 4, 7, 10}
TextShapes == {<<0, 0>>, <<120, 10>>, <<200, 10>>, <<300, 10>>, <<500, 10>>}

ContentRich ==
    ContentQuality(analyzeDescription(400, TRUE, TRUE, TRUE),
                   extractSpecifications(20, 10), extractFeatures(10),
                   extractFaqContent(MaxFaqCount),
                   ProductDetails(TRUE, TRUE, TRUE, TRUE, TRUE),
                   analyzeTextMetrics(120, 10))

ContentEmpty ==
    ContentQuality(analyzeDescription(0, FALSE, FALSE, FALSE),
                   extractSpecifications(0, 0), extractFeatures(0),
                   extractFaqContent(0),
                   ProductDetails(FALSE, FALSE, FALSE, FALSE, FALSE),
                   analyzeTextMetrics(0, 0))

\* extractContentStructure
ContentStructure(headings, semantic, ratio, tables, lists, ariaLabels, images, js) ==
    [headings |-> headings, semanticHTML |-> semantic, contentRatio |-> ratio,
     tables |-> tables, lists |-> lists, accessibility |-> [ariaLabels |-> ariaLabels],
     images |-> images, jsDependency |-> js]

StructureRich ==
    ContentStructure(analyzeHeadings(1, Text(<<"acme", "widget", "pro">>, 15)),
                     analyzeSemanticHTML(TRUE, TRUE, TRUE, TRUE, TRUE),
                     calculateContentRatio(TRUE, 80), analyzeTables(1, TRUE),
                     analyzeLists(2), 3, analyzeImages(MaxImages, MaxImages, "alt"),
                     assessJSDependency(FALSE, FALSE))

StructureEmpty ==
    ContentStructure(analyzeHeadings(0, NoText),
                     analyzeSemanticHTML(FALSE, FALSE, FALSE, FALSE, FALSE),
                     calculateContentRatio(FALSE, 0), analyzeTables(0, FALSE),
                     analyzeLists(0), 0, analyzeImages(0, 0, "none"),
                     assessJSDependency(TRUE, TRUE))

\* extractTrustSignals
TrustSignals(reviews, brand, certifications, awards) ==
    [reviews |-> reviews, brand |-> brand, certifications |-> certifications,
     awards |-> awards]

ReviewCounts == {0, 1, 9, 10, 30, 50, 120, 200}
Ratings == {0, 28, 33, 38, 42, 48}
ReviewLengths == {0, 30, 70, 150, 250}

TrustRich ==
    TrustSignals(extractReviewSignals(200, 48, "true", 250, 5),
                 extractBrandSignals(Text(<<"acme">>, 4), TRUE, TRUE),
                 extractCertifications(MaxCertifications), extractAwards(MaxAwards))

TrustEmpty ==
    TrustSignals(extractReviewSignals(0, 0, "null", 0, 0),
                 extractBrandSignals(NoText, FALSE, FALSE),
                 extractCertifications(0), extractAwards(0))

\* performFullExtraction
performFullExtraction(schemas, meta, content, structure, trust, title) ==
    [structuredData |-> [schemas |-> schemas],
     metaTags |-> meta,
     contentQuality |-> content,
     contentStructure |-> structure,
     trustSignals |-> trust,
     aiDiscoverability |-> [hasAnyDateSignal |-> FALSE],
     pageInfo |-> [title |-> title]]

\* a page with everything in place and a page with nothing
RichPage ==
    performFullExtraction(SchemaRich, MetaRich, ContentRich, StructureRich, TrustRich,
                          Text(<<"acme", "widget", "pro">>, 15))

EmptyPage ==
    performFullExtraction(SchemaEmpty, MetaEmpty, ContentEmpty, StructureEmpty,
                          TrustEmpty, NoText)

BasePages == {RichPage, EmptyPage}

\* what performFullExtraction returns when an extractor threw
ExtractionFailed == [error |-> "TypeError", pageInfo |-> [title |-> NoText]]

\* the base pages with one extractor's result varied
SchemaPages ==
    {[b EXCEPT !.structuredData.schemas = Schemas(p, o, b.structuredData.schemas.faq)] :
        b \in BasePages, p \in Products, o \in BOOLEAN}
    \cup {[b EXCEPT !.structuredData.schemas.organization = [name |-> "acme"]] :
            b \in BasePages}

MetaPages == {[b EXCEPT !.metaTags = x] : b \in BasePages, x \in MetaStates}

ContentPages ==
    {[b EXCEPT !.contentQuality.description = analyzeDescription(n, FALSE, FALSE, FALSE)] :
        b \in BasePages, n \in WordCounts}
    \cup {[b EXCEPT !.contentQuality.description = analyzeDescription(150, e, k, t)] :
            b \in BasePages, e \in BOOLEAN, k \in BOOLEAN, t \in BOOLEAN}
    \cup UNION {{[b EXCEPT !.contentQuality.specifications = extractSpecifications(n, u)] :
                    b \in BasePages, u \in {0, Min(n, 2), Min(n, 30)}} :
                  n \in SpecCounts}
    \cup {[b EXCEPT !.contentQuality.features = extractFeatures(n)] :
            b \in BasePages, n \in FeatureCounts}
    \cup {[b EXCEPT !.contentQuality.productDetails = ProductDetails(d, m, m, w, k)] :
            b \in BasePages, d \in BOOLEAN, m \in BOOLEAN, w \in BOOLEAN, k \in BOOLEAN}
    \cup {[b EXCEPT !.contentQuality.textMetrics = analyzeTextMetrics(t[1], t[2])] :
            b \in BasePages, t \in TextShapes}

StructurePages ==
    {[b EXCEPT !.contentStructure.headings = analyzeHeadings(n, t)] :
        b \in BasePages, n \in 0..MaxH1Count, t \in PageTitles}
    \cup {[b EXCEPT !.contentStructure.semanticHTML = analyzeSemanticHTML(m, a, x, x, FALSE)] :
            b \in BasePages, m \in BOOLEAN, a \in BOOLEAN, x \in BOOLEAN}
    \cup {[b EXCEPT !.contentStructure.contentRatio = calculateContentRatio(TRUE, r)] :
            b \in BasePages, r \in {0, 20, 30, 49, 50, 51}}
    \cup {[b EXCEPT !.contentStructure.tables = analyzeTables(n, n > 1)] :
            b \in BasePages, n \in 0..2}
    \cup {[b EXCEPT !.contentStructure.lists = analyzeLists(n)] :
            b \in BasePages, n \in 0..1}
    \cup {[b EXCEPT !.contentStructure.accessibility = [ariaLabels |-> n]] :
            b \in BasePages, n \in 0..1}
    \cup UNION {{[b EXCEPT !.contentStructure.images = analyzeImages(n, k, q)] :
                    b \in BasePages, k \in 0..n, q \in {"alt", "noalt"}} :
                  n \in 0..MaxImages}
    \cup {[b EXCEPT !.contentStructure.jsDependency = assessJSDependency(f, j)] :
            b \in BasePages, f \in BOOLEAN, j \in BOOLEAN}

TrustPages ==
    {[b EXCEPT !.trustSignals.reviews = extractReviewSignals(n, 42, "true", 150, 3)] :
        b \in BasePages, n \in ReviewCounts}
    \cup {[b EXCEPT !.trustSignals.reviews = extractReviewSignals(30, r, "false", 70, 3)] :
            b \in BasePages, r \in Ratings}
    \cup {[b EXCEPT !.trustSignals.reviews =
                        extractReviewSignals(30, 42, d, l, IF l > 0 THEN 3 ELSE 0)] :
            b \in BasePages, d \in {"true", "false", "null"}, l \in ReviewLengths}
    \cup {[b EXCEPT !.trustSignals.brand = extractBrandSignals(Text(<<"acme">>, 4), h, t)] :
            b \in BasePages, h \in BOOLEAN, t \in BOOLEAN}
    \cup {[b EXCEPT !.trustSignals.certifications = extractCertifications(n)] :
            b \in BasePages, n \in 0..MaxCertifications}
    \cup {[b EXCEPT !.trustSignals.awards = extractAwards(n)] :
            b \in BasePages, n \in 0..MaxAwards}

\* every FAQ count with every FAQ schema
FaqPages ==
    {[b EXCEPT !.structuredData.schemas.faq = f,
               !.contentQuality.faq = extractFaqContent(n)] :
        b \in BasePages, f \in FaqSchemas, n \in 0..MaxFaqCount}

TitlePages == {[b EXCEPT !.pageInfo.title = t] : b \in BasePages, t \in PageTitles}

Pages ==
    BasePages \cup SchemaPages \cup MetaPages \cup ContentPages \cup StructurePages
    \cup TrustPages \cup FaqPages \cup TitlePages \cup {ExtractionFailed}

----------------------------------------------------------------------------
(* service-worker.js: what the network answers *)

MajorCrawlers == 14

\* verifyImageFormat's answers for an og:image URL, and null when the message fails
ImageVerifications(url) ==
    {NullObj,
     [accessible |-> FALSE, isValid |-> FALSE]}
    \cup {[accessible |-> TRUE, format |-> f, isWebP |-> f = "webp",
           isValidFormat |-> f \in {"jpeg", "png", "gif"}] :
            f \in {"jpeg", "webp", "unknown"}}
    \cup {[accessible |-> FALSE, format |-> url.ext, isWebP |-> url.ext = "webp",
           isValidFormat |-> url.ext \in {"jpg", "jpeg", "png", "gif"}]}

\* fetchRobotsTxt's answers; blockedCrawlers and allowedCrawlers hold the lengths
RobotsAnswers ==
    {[accessible |-> "false", error |-> TRUE, blockedCrawlers |-> 0, allowedCrawlers |-> 0],
     [accessible |-> "false", error |-> FALSE, blockedCrawlers |-> 0,
      allowedCrawlers |-> MajorCrawlers]}
    \cup {[accessible |-> "true", error |-> FALSE, blockedCrawlers |-> b,
           allowedCrawlers |-> MajorCrawlers - b] : b \in {0, 10, MajorCrawlers}}

\* fetchLlmsTxt's answers
LlmsAnswers ==
    {[found |-> FALSE, llmsTxt |-> FALSE, llmsFullTxt |-> FALSE],
     [found |-> TRUE, llmsTxt |-> TRUE, llmsFullTxt |-> FALSE],
     [found |-> TRUE, llmsTxt |-> FALSE, llmsFullTxt |-> TRUE]}

\* every answer of fetchRobotsTxt: a network or CORS error, the side panel's
\* answer when the message itself fails (no lists), no robots.txt, and a
\* parsed robots.txt blocking any number of the major crawlers
AllRobotsAnswers ==
    {[accessible |-> "false", error |-> TRUE, blockedCrawlers |-> 0, allowedCrawlers |-> 0],
     [accessible |-> "false", error |-> TRUE],
     [accessible |-> "false", error |-> FALSE, blockedCrawlers |-> 0,
      allowedCrawlers |-> MajorCrawlers]}
    \cup {[accessible |-> "true", error |-> FALSE, blockedCrawlers |-> b,
           allowedCrawlers |-> MajorCrawlers - b] : b \in 0..MajorCrawlers}

\* every answer of fetchLlmsTxt
AllLlmsAnswers ==
    LlmsAnswers \cup {[found |-> TRUE, llmsTxt |-> TRUE, llmsFullTxt |-> TRUE],
                      [found |-> FALSE, error |-> TRUE]}

----------------------------------------------------------------------------
(* sidepanel.js: processResults *)

Init ==
    /\ context \in Contexts
    /\ extractedData \in Pages
    /\ imageVerification = NullObj
    /\ aiDiscoverabilityData = NullObj
    /\ scoreResult = NullObj
    /\ recommendations = << >>
    /\ pc = "extracted"
    /\ templates = RECOMMENDATION_TEMPLATES
    /\ ExtractionAtRest
    /\ PanelAtRest
    /\ WorkerAtRest

\* imageVerification = ogImage ? await this.verifyImageFormat(ogImage) : null
VerifyImageFormat ==
    /\ pc = "extracted"
    /\ IF "metaTags" \in DOMAIN extractedData
             /\ extractedData.metaTags.openGraph.image.present
       THEN imageVerification' \in ImageVerifications(extractedData.metaTags.openGraph.image)
       ELSE imageVerification' = NullObj
    /\ pc' = "verified"
    /\ UNCHANGED <<context, extractedData, aiDiscoverabilityData, scoreResult,
                   recommendations>>
    /\ UNCHANGED <<templates, extractionVars, panelVars, workerVars>>

\* aiDiscoverabilityData = await this.fetchAIDiscoverabilityData(baseUrl, pageUrl)
FetchAIDiscoverabilityData ==
    /\ pc = "verified"
    /\ \E robots \in RobotsAnswers, llms \in LlmsAnswers :
          aiDiscoverabilityData' = [robots |-> robots, llms |-> llms]
    /\ pc' = "fetched"
    /\ UNCHANGED <<context, extractedData, imageVerification, scoreResult,
                   recommendations>>
    /\ UNCHANGED <<templates, extractionVars, panelVars, workerVars>>

\* the rest of processResults: score, then recommend; an exception ends in
\* the catch block, which shows the error
ScoreAndRecommend ==
    /\ pc = "fetched"
    /\ IF calculateScoreThrows(extractedData)
       THEN /\ pc' = "error"
            /\ UNCHANGED <<scoreResult, recommendations>>
       ELSE /\ scoreResult' = calculateScore(context, extractedData, imageVerification,
                                             aiDiscoverabilityData)
            /\ IF generateRecommendationsThrows(extractedData)
               THEN pc' = "error" /\ UNCHANGED recommendations
               ELSE /\ recommendations' = generateRecommendations(scoreResult', extractedData,
                                                                  imageVerification)
                    /\ pc' = "done"
    /\ UNCHANGED <<context, extractedData, imageVerification, aiDiscoverabilityData>>
    /\ UNCHANGED <<templates, extractionVars, panelVars, workerVars>>

Next == VerifyImageFormat \/ FetchAIDiscoverabilityData \/ ScoreAndRecommend

Spec == Init /\ [][Next]_vars

\* the same run on the two base pages, with every network answer
InitBasePage ==
    /\ context \in Contexts
    /\ extractedData \in BasePages
    /\ imageVerification = NullObj
    /\ aiDiscoverabilityData = NullObj
    /\ scoreResult = NullObj
    /\ recommendations = << >>
    /\ pc = "extracted"
    /\ templates = RECOMMENDATION_TEMPLATES
    /\ ExtractionAtRest
    /\ PanelAtRest
    /\ WorkerAtRest

FetchEveryAIDiscoverabilityData ==
    /\ pc = "verified"
    /\ \E robots \in AllRobotsAnswers, llms \in AllLlmsAnswers :
          aiDiscoverabilityData' = [robots |-> robots, llms |-> llms]
    /\ pc' = "fetched"
    /\ UNCHANGED <<context, extractedData, imageVerification, scoreResult,
                   recommendations>>
    /\ UNCHANGED <<templates, extractionVars, panelVars, workerVars>>

NextNetwork == VerifyImageFormat \/ FetchEveryAIDiscoverabilityData \/ ScoreAndRecommend

SpecNetwork == InitBasePage /\ [][NextNetwork]_vars

\* the same run with a table that lacks one template a check refers to
TemplateIds ==
    {"og-image-missing", "features-missing", "compatibility-missing", "description-short",
     "reviews-low-count", "certifications-missing"}

InitTemplates ==
    /\ context \in Contexts
    /\ extractedData \in BasePages \cup TrustPages
    /\ imageVerification = NullObj
    /\ aiDiscoverabilityData = NullObj
    /\ scoreResult = NullObj
    /\ recommendations = << >>
    /\ pc = "extracted"
    /\ \E missing \in TemplateIds :
          templates = [id \in DOMAIN RECOMMENDATION_TEMPLATES \ {missing}
                          |-> RECOMMENDATION_TEMPLATES[id]]
    /\ ExtractionAtRest
    /\ PanelAtRest
    /\ WorkerAtRest

SpecTemplates == InitTemplates /\ [][Next]_vars

\* pages whose context-weighted content signals vary together: description
\* language, specification count, warranty and compatibility
ContextualPages ==
    {[EmptyPage EXCEPT
        !.contentQuality.description = analyzeDescription(150, e, e, t),
        !.contentQuality.specifications = extractSpecifications(n, 0),
        !.contentQuality.productDetails = ProductDetails(FALSE, FALSE, FALSE, w, k)] :
        e \in BOOLEAN, t \in BOOLEAN, n \in {0, 1, 5, 10, 20}, w \in BOOLEAN, k \in BOOLEAN}

InitContextual ==
    /\ context \in Contexts
    /\ extractedData \in ContextualPages
    /\ imageVerification = NullObj
    /\ aiDiscoverabilityData = NullObj
    /\ scoreResult = NullObj
    /\ recommendations = << >>
    /\ pc = "extracted"
    /\ templates = RECOMMENDATION_TEMPLATES
    /\ ExtractionAtRest
    /\ PanelAtRest
    /\ WorkerAtRest

SpecContextual == InitContextual /\ [][Next]_vars

----------------------------------------------------------------------------
(* content-script.js: the JSON-LD cache and structured-data resolution.    *)
(* An absent (undefined) property of an entity is the empty string Absent; *)
(* ratings are in tenths of a star; a review count of 0 stands for null.   *)

MaxBlocks == 2

Absent == ""

\* an offers object, a hasVariant element, and a Product or ProductGroup entity
Offer(price) == [price |-> price]

Variant(gtin, mpn, offers) == [gtin |-> gtin, mpn |-> mpn, offers |-> offers]

ProductEntity(type, name, sku, gtin, mpn, offers, hasVariant, aggregateRating) ==
    [type |-> type, name |-> name, sku |-> sku, productGroupID |-> Absent,
     gtin |-> gtin, mpn |-> mpn, offers |-> offers, hasVariant |-> hasVariant,
     aggregateRating |-> aggregateRating]

\* a || b on strings
Or(a, b) == IF a # Absent THEN a ELSE b

\* the offers of the first variant that has them, NullObj when none has
FirstVariantOffers(variants) ==
    LET having == {i \in 1..Len(variants) : variants[i].offers # NullObj}
    IN IF having = {} THEN NullObj
       ELSE variants[CHOOSE i \in having : \A j \in having : i <= j].offers

\* the body of items.forEach in categorizeSchemas
categorizeItem(schemas, item) ==
    LET type == Field(item, "type", Absent)
    IN IF type \in {"product", "productgroup"}
       THEN LET offersSource == IF item.offers # NullObj THEN item.offers
                                ELSE FirstVariantOffers(item.hasVariant)
                rating == item.aggregateRating
            IN [schemas EXCEPT
                  !.product = [name |-> item.name,
                               sku |-> Or(item.sku, item.productGroupID),
                               gtin |-> item.gtin,
                               mpn |-> item.mpn,
                               hasOffer |-> item.offers # NullObj \/ Len(item.hasVariant) > 0,
                               hasRating |-> rating # NullObj,
                               isProductGroup |-> type = "productgroup"],
                  !.offer = IF offersSource # NullObj
                            THEN [offers |-> <<[price |-> offersSource.price]>>]
                            ELSE @,
                  !.aggregateRating =
                            IF rating # NullObj
                            THEN [ratingValue |-> Field(rating, "ratingValue", NaN),
                                  reviewCount |-> Field(rating, "reviewCount", 0),
                                  bestRating |-> 50]
                            ELSE @]
       ELSE IF type = "faqpage"
       THEN [schemas EXCEPT !.faq = [questionCount |-> item.questions]]
       ELSE IF type = "organization"
       THEN [schemas EXCEPT !.organization = [name |-> item.name]]
       ELSE schemas

\* a parsed block is an array [array |-> items], an object with "@graph"
\* [graph |-> items], or a single entity
BlockItems_ObjectsOnly(data) ==
    IF "graph" \in DOMAIN data THEN data.graph ELSE <<data>>

BlockItems(data) ==
    IF "array" \in DOMAIN data THEN data.array
    ELSE IF "graph" \in DOMAIN data THEN data.graph
    ELSE <<data>>

categorizeSchemas(data, schemas) ==
    LET items == BlockItems(data)
        RECURSIVE Each(_)
        Each(n) == IF n = 0 THEN schemas ELSE categorizeItem(Each(n - 1), items[n])
    IN Each(Len(items))

\* the body of microdataItems.forEach in categorizeMicrodataSchemas
categorizeMicrodataItem(schemas, item) ==
    LET props == item.properties
    IN IF item.type \in {"product", "productgroup"} /\ schemas.product = NullObj
       THEN [schemas EXCEPT
                !.product = [name |-> props.name, sku |-> props.sku,
                             hasOffer |-> props.offers # NullObj,
                             hasRating |-> props.aggregateRating # NullObj,
                             isProductGroup |-> item.type = "productgroup",
                             source |-> "microdata"],
                !.offer = IF props.offers # NullObj /\ @ = NullObj
                          THEN [offers |-> <<[price |-> props.offers.price,
                                              source |-> "microdata"]>>]
                          ELSE @,
                !.aggregateRating =
                          IF props.aggregateRating # NullObj /\ @ = NullObj
                          THEN [ratingValue |-> props.aggregateRating.ratingValue,
                                reviewCount |-> 0, bestRating |-> 50,
                                source |-> "microdata"]
                          ELSE @]
       ELSE IF item.type = "aggregaterating" /\ schemas.aggregateRating = NullObj
       THEN [schemas EXCEPT
                !.aggregateRating = [ratingValue |-> props.ratingValue,
                                     reviewCount |-> 0, bestRating |-> 50,
                                     source |-> "microdata"]]
       ELSE schemas

categorizeMicrodataSchemas(microdataItems, schemas) ==
    LET RECURSIVE Each(_)
        Each(n) == IF n = 0 THEN schemas
                   ELSE categorizeMicrodataItem(Each(n - 1), microdataItems[n])
    IN Each(Len(microdataItems))

\* a script element: malformed text, or text that JSON.parse turns into data
Malformed == [malformed |-> TRUE]

Script(data) == [malformed |-> FALSE, data |-> data]

\* the try/catch around JSON.parse in getParsedJsonLd
JsonParse(script) ==
    IF script.malformed THEN [valid |-> FALSE, error |-> "SyntaxError"]
    ELSE [valid |-> TRUE, data |-> script.data]

clearJsonLdCache_Kept(cache) == cache

clearJsonLdCache(cache) == NullObj

getParsedJsonLd(cache, doc) ==
    IF cache # NullObj THEN cache
    ELSE [entries |-> [i \in 1..Len(doc.jsonLd) |-> JsonParse(doc.jsonLd[i])]]

EmptySchemas ==
    [product |-> NullObj, offer |-> NullObj, aggregateRating |-> NullObj,
     faq |-> NullObj, organization |-> NullObj]

\* categorizeSchemas(null, ...) reads data['@graph'] of null: a TypeError
extractStructuredDataThrows(parsedJsonLd) ==
    \E i \in 1..Len(parsedJsonLd.entries) :
        parsedJsonLd.entries[i].valid /\ parsedJsonLd.entries[i].data = NullObj

extractStructuredData_AbortOnInvalid(parsedJsonLd, microdataItems) ==
    LET entries == parsedJsonLd.entries
        RECURSIVE Each(_)
        Each(n) == IF n = 0 THEN EmptySchemas
                   ELSE IF entries[n].valid
                        THEN categorizeSchemas(entries[n].data, Each(n - 1))
                        ELSE EmptySchemas
    IN [jsonLd |-> entries,
        microdata |-> microdataItems,
        schemas |-> categorizeMicrodataSchemas(microdataItems, Each(Len(entries)))]

extractStructuredData(parsedJsonLd, microdataItems) ==
    LET entries == parsedJsonLd.entries
        RECURSIVE Each(_)
        Each(n) == IF n = 0 THEN EmptySchemas
                   ELSE IF entries[n].valid
                        THEN categorizeSchemas(entries[n].data, Each(n - 1))
                        ELSE Each(n - 1)
    IN [jsonLd |-> entries,
        microdata |-> microdataItems,
        schemas |-> categorizeMicrodataSchemas(microdataItems, Each(Len(entries)))]

\* the JSON-LD part of extractReviewSignals: the ratingValue of the last
\* aggregateRating met, read through the cache; NaN stands for none
reviewSignalsRating(parsedJsonLd) ==
    LET entries == parsedJsonLd.entries
        ItemsOf(n) == IF entries[n].valid THEN BlockItems(entries[n].data) ELSE << >>
        RECURSIVE EachItem(_, _, _)
        EachItem(items, k, rating) ==
            IF k > Len(items) THEN rating
            ELSE LET found == Field(items[k], "aggregateRating", NullObj)
                 IN EachItem(items, k + 1,
                             IF found # NullObj THEN Field(found, "ratingValue", NaN)
                             ELSE rating)
        RECURSIVE EachBlock(_)
        EachBlock(n) == IF n = 0 THEN NaN ELSE EachItem(ItemsOf(n), 1, EachBlock(n - 1))
    IN EachBlock(Len(entries))

\* the entities and scripts of the pages
InlineRating == [ratingValue |-> 45, reviewCount |-> 12]

RatingReference == [id |-> "#r"]

RatingNode == [type |-> "aggregaterating", id |-> "#r", ratingValue |-> 47, reviewCount |-> 200]

OrganizationNode == [type |-> "organization", name |-> "acme"]

FirstProduct ==
    ProductEntity("product", "a", "s1", "g1", "m1", Offer(10), << >>, InlineRating)

SecondProduct ==
    ProductEntity("product", "b", Absent, "g2", Absent, NullObj, << >>, NullObj)

GroupProduct ==
    ProductEntity("productgroup", "c", Absent, Absent, Absent, NullObj,
                  <<Variant(Absent, Absent, NullObj), Variant(Absent, "m2", Offer(20)),
                    Variant("g3", Absent, Offer(30))>>,
                  RatingReference)

Scripts ==
    {Malformed,
     Script(NullObj),
     Script(FirstProduct),
     Script([array |-> <<FirstProduct>>]),
     Script([graph |-> <<FirstProduct>>]),
     Script(SecondProduct),
     Script([array |-> <<OrganizationNode, SecondProduct>>]),
     Script([graph |-> <<GroupProduct, RatingNode>>])}

MicrodataItems ==
    {[type |-> "product",
      properties |-> [name |-> "m", sku |-> "s9", offers |-> Offer(40),
                      aggregateRating |-> [ratingValue |-> 30]]],
     [type |-> "aggregaterating", properties |-> [ratingValue |-> 20]]}

RECURSIVE ScriptSeqs(_)
ScriptSeqs(n) ==
    IF n = 0 THEN {<< >>}
    ELSE ScriptSeqs(n - 1)
         \cup {Append(q, x) : q \in {r \in ScriptSeqs(n - 1) : Len(r) = n - 1}, x \in Scripts}

Documents ==
    {[jsonLd |-> q, microdata |-> m] :
        q \in ScriptSeqs(MaxBlocks), m \in {<< >>} \cup {<<i>> : i \in MicrodataItems}}

\* the EXTRACT_DATA handler of the content script: performFullExtraction,
\* step by step, then the EXTRACTION_COMPLETE message
InitExtraction ==
    /\ document \in Documents
    /\ jsonLdCache = NullObj
    /\ extraction = NullObj
    /\ passPc = "idle"
    /\ ScoringAtRest
    /\ PanelAtRest
    /\ WorkerAtRest

StartExtraction ==
    /\ passPc = "idle"
    /\ jsonLdCache' = clearJsonLdCache(jsonLdCache)
    /\ passPc' = "cleared"
    /\ UNCHANGED <<document, extraction, scoringVars, panelVars, workerVars>>

ExtractStructuredData ==
    /\ passPc = "cleared"
    /\ LET parsedJsonLd == getParsedJsonLd(jsonLdCache, document)
       IN /\ jsonLdCache' = parsedJsonLd
          /\ IF extractStructuredDataThrows(parsedJsonLd)
             THEN /\ passPc' = "threw"
                  /\ UNCHANGED extraction
             ELSE /\ passPc' = "structured"
                  /\ extraction' = [structuredData |->
                                      extractStructuredData(parsedJsonLd, document.microdata)]
    /\ UNCHANGED <<document, scoringVars, panelVars, workerVars>>

ExtractReviewSignals ==
    /\ passPc = "structured"
    /\ LET parsedJsonLd == getParsedJsonLd(jsonLdCache, document)
       IN /\ jsonLdCache' = parsedJsonLd
          /\ extraction' = [structuredData |-> extraction.structuredData,
                            reviewRating |-> reviewSignalsRating(parsedJsonLd)]
    /\ passPc' = "extracted"
    /\ UNCHANGED <<document, scoringVars, panelVars, workerVars>>

ReturnResult ==
    /\ passPc = "extracted"
    /\ jsonLdCache' = clearJsonLdCache(jsonLdCache)
    /\ passPc' = "returned"
    /\ UNCHANGED <<document, extraction, scoringVars, panelVars, workerVars>>

CatchExtractionError ==
    /\ passPc = "threw"
    /\ jsonLdCache' = clearJsonLdCache(jsonLdCache)
    /\ extraction' = [error |-> "TypeError"]
    /\ passPc' = "returned"
    /\ UNCHANGED <<document, scoringVars, panelVars, workerVars>>

SendExtractionComplete ==
    /\ passPc = "returned"
    /\ extraction' = NullObj
    /\ passPc' = "idle"
    /\ UNCHANGED <<document, jsonLdCache, scoringVars, panelVars, workerVars>>

\* between two passes the page's scripts change
ChangeDocument ==
    /\ passPc = "idle"
    /\ document' \in Documents \ {document}
    /\ UNCHANGED <<jsonLdCache, extraction, passPc, scoringVars, panelVars, workerVars>>

NextExtraction ==
    \/ StartExtraction
    \/ ExtractStructuredData
    \/ ExtractReviewSignals
    \/ ReturnResult
    \/ CatchExtractionError
    \/ SendExtractionComplete
    \/ ChangeDocument

SpecExtraction == InitExtraction /\ [][NextExtraction]_vars

----------------------------------------------------------------------------
(* extractProductDetails: the warranty of the page *)

MaxPhrases == 2

\* a string value: the first `length` characters of `text`
Str(text, length) == [text |-> text, length |-> length]

\* s.substring(0, n)
substring(s, n) == IF s.length <= n THEN s ELSE Str(s.text, n)

\* what a regular expression's match returns: match[0] and match[1]
\* (NullObj when the pattern has no group that took part)
Match(pattern, whole, group) == [pattern |-> pattern, whole |-> whole, group |-> group]

\* a stretch of page text: whether warrantyNegative matches inside it, and
\* the matches the warrantyPatterns (numbered in the order of the array)
\* find inside it
Phrase(negative, matches) == [negative |-> negative, matches |-> matches]

Phrases ==
    {Phrase(FALSE, {}),
     Phrase(TRUE, {}),
     Phrase(TRUE, {Match(3, Str("warranty: sold as seen, no returns", 34),
                         Str("sold as seen, no returns", 24))}),
     Phrase(FALSE, {Match(1, Str("12-month warranty", 17), Str("12-month warranty", 17))}),
     Phrase(FALSE, {Match(2, Str("limited lifetime warranty", 25),
                          Str("limited lifetime warranty", 25)),
                    Match(3, Str("warranty: limited lifetime warranty", 35),
                          Str("limited lifetime warranty", 25))}),
     Phrase(FALSE, {Match(4, Str("warranted against defects in materials and workmanship", 57),
                          Str("warranted against defects in materials and workmanship", 57))})}

RECURSIVE PhraseSeqs(_)
PhraseSeqs(n) ==
    IF n = 0 THEN {<< >>}
    ELSE PhraseSeqs(n - 1)
         \cup {Append(q, x) : q \in {r \in PhraseSeqs(n - 1) : Len(r) = n - 1}, x \in Phrases}

\* warrantyNegative.test(lower)
warrantyNegative(text) == \E k \in DOMAIN text : text[k].negative

\* text.match(pattern): the leftmost match of the pattern, NullObj for null
TextMatch(text, pattern) ==
    LET at == {k \in DOMAIN text : \E m \in text[k].matches : m.pattern = pattern}
    IN IF at = {} THEN NullObj
       ELSE LET k == CHOOSE i \in at : \A j \in at : i <= j
            IN CHOOSE m \in text[k].matches : m.pattern = pattern

warrantyPatterns == 1..5

NoDetails == [hasWarranty |-> FALSE, warrantyText |-> NullObj, source |-> "dom"]

\* the warranty part of extractProductDetails before the schema fallback
warrantyFromText(text) ==
    LET matching == {p \in warrantyPatterns : TextMatch(text, p) # NullObj}
    IN IF warrantyNegative(text) \/ matching = {} THEN NoDetails
       ELSE LET match == TextMatch(text, CHOOSE p \in matching : \A q \in matching : p <= q)
            IN [NoDetails EXCEPT
                   !.hasWarranty = TRUE,
                   !.warrantyText = IF match.group # NullObj THEN substring(match.group, 50)
                                    ELSE substring(match.whole, 50)]


\* !!value of a string or an object
IsTruthy(value) == ~("text" \in DOMAIN value /\ value.length = 0)

\* an object carries the text JSON.stringify gives for it in its field json
formatSchemaValue(value) ==
    IF ~IsTruthy(value) THEN Str("", 0)
    ELSE IF "text" \in DOMAIN value THEN value
    ELSE IF "value" \in DOMAIN value
         THEN IF "unitCode" \in DOMAIN value /\ IsTruthy(value.unitCode)
              THEN Str(value.value.text \o " " \o value.unitCode.text,
                       value.value.length + 1 + value.unitCode.length)
              ELSE value.value
    ELSE value.json

\* the warranty part of what extractProductDetailsFromSchema does with one
\* item of a block
detailsFromItem(details, item) ==
    IF "array" \in DOMAIN item \/ Field(item, "type", Absent) \notin {"product", "productgroup"}
    THEN details
    ELSE LET direct ==
                 IF ~details.hasWarranty /\ "warranty" \in DOMAIN item /\ IsTruthy(item.warranty)
                 THEN [hasWarranty |-> TRUE,
                       warrantyText |-> substring(formatSchemaValue(item.warranty), 50),
                       source |-> "schema"]
                 ELSE details
             props == Field(item, "additionalProperty", << >>)
             RECURSIVE Each(_)
             Each(n) ==
                 IF n = 0 THEN direct
                 ELSE LET sofar == Each(n - 1)
                      IN IF ~sofar.hasWarranty /\ props[n].warrantyName
                         THEN [hasWarranty |-> TRUE,
                               warrantyText |-> substring(props[n].value, 50),
                               source |-> "schema"]
                         ELSE sofar
         IN Each(Len(props))

extractProductDetailsFromSchema(details, doc) ==
    LET ItemsOf(script) ==
            IF script.malformed \/ script.data = NullObj THEN << >>
            ELSE BlockItems_ObjectsOnly(script.data)
        RECURSIVE EachItem(_, _, _)
        EachItem(items, k, sofar) ==
            IF k > Len(items) THEN sofar
            ELSE EachItem(items, k + 1, detailsFromItem(sofar, items[k]))
        RECURSIVE EachScript(_)
        EachScript(n) ==
            IF n = 0 THEN details
            ELSE EachItem(ItemsOf(doc.jsonLd[n]), 1, EachScript(n - 1))
    IN EachScript(Len(doc.jsonLd))

extractProductDetails(doc) ==
    extractProductDetailsFromSchema(warrantyFromText(doc.text), doc)

\* the Product entities of the pages
PlainProduct == [type |-> "product", name |-> "a"]

WarrantedProduct == [type |-> "product", name |-> "a", warranty |-> Str("2 years", 7)]

PromisedProduct ==
    [type |-> "productgroup", name |-> "a",
     warranty |-> [durationOfWarranty |-> Str("P2Y", 3),
                   json |-> Str("{\"@type\":\"WarrantyPromise\",\"durationOfWarranty\":\"P2Y\"}", 55)]]

PropertyProduct ==
    [type |-> "product", name |-> "a",
     additionalProperty |-> <<[name |-> "colour", warrantyName |-> FALSE, value |-> Str("red", 3)],
                              [name |-> "warranty", warrantyName |-> TRUE,
                               value |-> Str("3 years", 7)]>>]

DetailScripts ==
    {<< >>,
     <<Malformed>>,
     <<Script(NullObj)>>,
     <<Script(PlainProduct)>>,
     <<Script(OrganizationNode)>>,
     <<Script(WarrantedProduct)>>,
     <<Script([type |-> "product", name |-> "a", warranty |-> Str("", 0)])>>,
     <<Script([array |-> <<WarrantedProduct>>])>>,
     <<Script([graph |-> <<OrganizationNode, PromisedProduct>>])>>,
     <<Script(PropertyProduct)>>,
     <<Malformed, Script(PropertyProduct), Script(WarrantedProduct)>>}

InitDetails ==
    /\ document \in {[jsonLd |-> q, microdata |-> << >>, text |-> t] :
                        q \in DetailScripts, t \in PhraseSeqs(MaxPhrases)}
    /\ jsonLdCache = NullObj
    /\ extraction = NullObj
    /\ passPc = "idle"
    /\ ScoringAtRest
    /\ PanelAtRest
    /\ WorkerAtRest

\* extractContentQuality's call of extractProductDetails(text)
ExtractProductDetails ==
    /\ passPc = "idle"
    /\ extraction' = [productDetails |-> extractProductDetails(document)]
    /\ passPc' = "details"
    /\ UNCHANGED <<document, jsonLdCache, scoringVars, panelVars, workerVars>>

NextDetails == ExtractProductDetails

SpecDetails == InitDetails /\ [][NextDetails]_vars

----------------------------------------------------------------------------
(* Side panel, service worker and content script exchanging messages *)

MaxRequests == 2
MaxProcessed == 2

\* message.requestId of a message that carries none (undefined)
NoRequestId == -1

Message(type, requestId, to) == [type |-> type, requestId |-> requestId, to |-> to]

InitPanel ==
    /\ ScoringAtRest
    /\ ExtractionAtRest
    /\ PanelAtRest
    /\ WorkerAtRest

\* SidePanelApp.startAnalysis up to "await chrome.tabs.query": the request
\* id, unique per call, is a fresh number
StartAnalysis ==
    /\ requestsStarted < MaxRequests
    /\ view' = "loading"
    /\ timers' = timers \ {analysisTimeoutId}
    /\ analysisTimeoutId' = 0
    /\ currentData' = NullObj
    /\ requestsStarted' = requestsStarted + 1
    /\ currentRequestId' = requestsStarted + 1
    /\ awaitingTab' = awaitingTab \cup {requestsStarted + 1}
    /\ selectedContext' = requestsStarted + 1
    /\ UNCHANGED <<inFlight, processed, runs, displayed, shownError,
                   scoringVars, extractionVars, workerVars>>

\* SidePanelApp.startAnalysis after the await: without a tab an error is
\* shown; else EXTRACT_DATA goes to the tab with the request id (an error is
\* shown when no content script listens) and the timeout is set
SendExtractData ==
    \E requestId \in awaitingTab, tab \in BOOLEAN, listening \in BOOLEAN :
        /\ awaitingTab' = awaitingTab \ {requestId}
        /\ IF ~tab
           THEN /\ view' = "error"
                /\ UNCHANGED <<inFlight, analysisTimeoutId, timers>>
           ELSE /\ inFlight' = IF listening
                               THEN inFlight \cup {Message("EXTRACT_DATA", requestId, "tab")}
                               ELSE inFlight
                /\ view' = IF listening THEN view ELSE "error"
                /\ analysisTimeoutId' = requestId
                /\ timers' = timers \cup {requestId}
        /\ UNCHANGED <<currentRequestId, requestsStarted, currentData, processed,
                       processVars, scoringVars, extractionVars, workerVars>>

\* the setTimeout callback of startAnalysis
AnalysisTimeout ==
    \E requestId \in timers :
        /\ timers' = timers \ {requestId}
        /\ view' = IF currentRequestId = requestId /\ currentData = NullObj
                   THEN "error" ELSE view
        /\ UNCHANGED <<currentRequestId, requestsStarted, awaitingTab, analysisTimeoutId,
                       currentData, inFlight, processed, processVars,
                   scoringVars, extractionVars, workerVars>>

\* service worker, case 'EXTRACT_DATA': a request received over
\* chrome.runtime is passed on to the active tab as { type: 'EXTRACT_DATA' }
ForwardExtractData ==
    /\ Len(processed) < MaxProcessed
    /\ inFlight' = inFlight \cup {Message("EXTRACT_DATA", NoRequestId, "tab")}
    /\ UNCHANGED <<currentRequestId, requestsStarted, awaitingTab, analysisTimeoutId, timers,
                   currentData, view, processed, processVars,
                   scoringVars, extractionVars, workerVars>>

\* content script, EXTRACT_DATA: the answer carries message.requestId and
\* chrome.runtime.sendMessage hands it to the side panel and the service worker
AnswerExtractData ==
    \E m \in inFlight :
        /\ m.type = "EXTRACT_DATA" /\ m.to = "tab"
        /\ inFlight' = (inFlight \ {m})
                       \cup {Message("EXTRACTION_COMPLETE", m.requestId, "sidepanel"),
                             Message("EXTRACTION_COMPLETE", m.requestId, "worker")}
        /\ UNCHANGED <<currentRequestId, requestsStarted, awaitingTab, analysisTimeoutId, timers,
                       currentData, view, processed, processVars,
                   scoringVars, extractionVars, workerVars>>

\* service worker, case 'EXTRACTION_COMPLETE': the message is sent again
ForwardExtractionComplete ==
    \E m \in inFlight :
        /\ m.type = "EXTRACTION_COMPLETE" /\ m.to = "worker"
        /\ inFlight' = (inFlight \ {m})
                       \cup {Message("EXTRACTION_COMPLETE", m.requestId, "sidepanel")}
        /\ UNCHANGED <<currentRequestId, requestsStarted, awaitingTab, analysisTimeoutId, timers,
                       currentData, view, processed, processVars,
                   scoringVars, extractionVars, workerVars>>

\* whether the listener drops the message as stale
IgnoredAsStale(requestId, current) ==
    requestId # NoRequestId /\ requestId # current

\* processResults from its call to its first await: verifyImageFormat when
\* the data has an og:image, else fetchAIDiscoverabilityData
Suspended(run, data, ogImage) ==
    [run |-> run, data |-> data, ogImage |-> ogImage,
     at |-> IF ogImage THEN "verifyImageFormat" ELSE "fetchAIDiscoverabilityData"]

\* SidePanelApp's listener on EXTRACTION_COMPLETE, with processResults up to
\* its first await; the data is represented by the request id the extraction
\* answered
ReceiveExtractionComplete ==
    \E m \in inFlight :
        /\ m.type = "EXTRACTION_COMPLETE" /\ m.to = "sidepanel"
        /\ Len(processed) < MaxProcessed
        /\ inFlight' = inFlight \ {m}
        /\ IF IgnoredAsStale(m.requestId, currentRequestId)
           THEN UNCHANGED <<analysisTimeoutId, timers, currentData, processed, runs>>
           ELSE /\ timers' = timers \ {analysisTimeoutId}
                /\ analysisTimeoutId' = 0
                /\ currentData' = [requestId |-> m.requestId]
                /\ processed' = Append(processed, [requestId |-> m.requestId,
                                                   currentRequestId |-> currentRequestId])
                /\ \E ogImage \in BOOLEAN :
                       runs' = runs \cup {Suspended(Len(processed) + 1, m.requestId, ogImage)}
        /\ UNCHANGED <<currentRequestId, requestsStarted, awaitingTab, view, selectedContext,
                       displayed, shownError, scoringVars, extractionVars, workerVars>>

\* processResults resumed with verifyImageFormat's answer: on to the await
\* of fetchAIDiscoverabilityData
ResumeAfterVerifyImageFormat ==
    \E r \in runs :
        /\ r.at = "verifyImageFormat"
        /\ runs' = (runs \ {r}) \cup {[r EXCEPT !.at = "fetchAIDiscoverabilityData"]}
        /\ UNCHANGED <<currentRequestId, requestsStarted, awaitingTab, analysisTimeoutId, timers,
                       currentData, view, inFlight, processed, selectedContext, displayed,
                       shownError, scoringVars, extractionVars, workerVars>>

\* processResults resumed with the network data: calculateScore of
\* this.currentData under this.selectedContext with the answers the run
\* awaited, then displayResults; calculateScore(null, ...) throws and the
\* catch shows the error. What follows (saveAnalysis, loadHistory) changes
\* nothing the side panel shows here.
ResumeAfterFetchAIDiscoverabilityData ==
    \E r \in runs :
        /\ r.at = "fetchAIDiscoverabilityData"
        /\ runs' = runs \ {r}
        /\ IF currentData = NullObj
           THEN /\ view' = "error"
                /\ shownError' = [request |-> r.data, currentRequestId |-> currentRequestId]
                /\ UNCHANGED displayed
           ELSE /\ view' = "results"
                /\ displayed' = [data |-> currentData.requestId,
                                 imageVerification |-> r.data,
                                 network |-> r.data,
                                 context |-> selectedContext]
                /\ UNCHANGED shownError
        /\ UNCHANGED <<currentRequestId, requestsStarted, awaitingTab, analysisTimeoutId, timers,
                       currentData, inFlight, processed, selectedContext,
                       scoringVars, extractionVars, workerVars>>

NextPanel ==
    \/ StartAnalysis
    \/ SendExtractData
    \/ AnalysisTimeout
    \/ ForwardExtractData
    \/ AnswerExtractData
    \/ ForwardExtractionComplete
    \/ ReceiveExtractionComplete
    \/ ResumeAfterVerifyImageFormat
    \/ ResumeAfterFetchAIDiscoverabilityData

SpecPanel == InitPanel /\ [][NextPanel]_vars

----------------------------------------------------------------------------
(* service-worker.js: the fetch functions and their message handlers.     *)
(* A robots.txt is the sequence of its lines, each trimmed and lowercased   *)
(* and split into its directive and value.                                  *)

MaxLines == 3

MAJOR_AI_CRAWLERS ==
    <<"gptbot", "chatgpt-user", "oai-searchbot", "claudebot", "claude-web", "anthropic-ai",
      "perplexitybot", "google-extended", "applebot-extended", "meta-externalagent",
      "bytespider", "cohere-ai", "youbot", "amazonbot">>

Line(directive, value) == [directive |-> directive, value |-> value]

\* a property every object inherits: crawlerRules[name] is truthy for it
\* although no group was stored
Inherited(name) == name \in {"constructor", "__proto__"}

\* the loop over the lines of parseRobotsTxt: the rules per user-agent (the
\* paths as sets), the current agent ("" for null), the wildcard flag, and
\* whether push was called on the undefined list of an inherited property
RECURSIVE parseLines(_, _)
parseLines(lines, n) ==
    IF n = 0
    THEN [crawlerRules |-> [a \in {} |-> NullObj], currentAgent |-> "",
          hasWildcardDisallowAll |-> FALSE, threw |-> FALSE]
    ELSE LET before == parseLines(lines, n - 1)
             line == lines[n]
             agent == before.currentAgent
             rules == before.crawlerRules
             root == line.value \in {"/", "/*"}
         IN IF before.threw \/ line.directive \in {"comment", "blank"} THEN before
            ELSE IF line.directive = "user-agent"
            THEN [before EXCEPT
                    !.currentAgent = line.value,
                    !.crawlerRules =
                        IF line.value \in DOMAIN rules \/ Inherited(line.value) THEN rules
                        ELSE rules @@ (line.value :> [disallow |-> {}, allow |-> {}])]
            ELSE IF agent = "" THEN before
            ELSE IF agent \notin DOMAIN rules THEN [before EXCEPT !.threw = TRUE]
            ELSE IF line.directive = "disallow"
            THEN [before EXCEPT
                    !.crawlerRules[agent].disallow = @ \cup {line.value},
                    !.hasWildcardDisallowAll = @ \/ (agent = "*" /\ root)]
            ELSE [before EXCEPT !.crawlerRules[agent].allow = @ \cup {line.value}]

parseRobotsTxtThrows(content) == parseLines(content, Len(content)).threw

parseRobotsTxt(content) ==
    LET parsed == parseLines(content, Len(content))
        rules == parsed.crawlerRules
        Blocked(crawler) ==
            \/ /\ crawler \in DOMAIN rules
               /\ rules[crawler].disallow \cap {"/", "/*"} # {}
               /\ rules[crawler].allow \cap {"/", "/*"} = {}
            \/ crawler \notin DOMAIN rules /\ parsed.hasWildcardDisallowAll
    IN [accessible |-> TRUE,
        crawlerRules |-> rules,
        blockedCrawlers |-> SelectSeq(MAJOR_AI_CRAWLERS, Blocked),
        allowedCrawlers |-> SelectSeq(MAJOR_AI_CRAWLERS, LAMBDA c : ~Blocked(c)),
        hasWildcardDisallowAll |-> parsed.hasWildcardDisallowAll]

\* the lines robots.txt files are made of here
RobotsLines ==
    {Line("user-agent", a) : a \in {"*", "gptbot", "amazonbot", "constructor"}}
    \cup {Line("disallow", path) : path \in {"/", "/*", "/private"}}
    \cup {Line("allow", path) : path \in {"/", "/private"}}
    \cup {Line("comment", ""), Line("blank", "")}

RobotsContents == UNION {[1..n -> RobotsLines] : n \in 0..MaxLines}

----------------------------------------------------------------------------
\* what a fetch() does: it rejects (network or CORS error, or a URL that
\* cannot be fetched), or answers with a status that is not OK, or with OK
Reject == [kind |-> "reject"]
NotOk == [kind |-> "notOk"]
Ok(headers) == [kind |-> "ok"] @@ headers

\* a promise that rejected
Rejected == [rejected |-> TRUE]

\* the URL extension checks of verifyImageFormat's last fallback
formatFromExtension(ext) ==
    CASE ext \in {"jpg", "jpeg"} -> "jpeg"
      [] ext \in {"png", "webp", "gif", "avif"} -> ext
      [] OTHER -> "unknown"

\* verifyImageFormat; magic is what detectFormatFromMagicBytes returns, which
\* catches its own errors ("null" for null)
verifyImageFormat(url, outcome) ==
    LET magic == outcome.magic
        contentType == outcome.head.contentType
        fromType == CASE contentType = "image/jpeg" -> "jpeg"
                      [] contentType = "image/png" -> "png"
                      [] contentType = "image/gif" -> "gif"
                      [] contentType = "image/webp" -> "webp"
                      [] OTHER -> "unknown"
        format == IF fromType = "unknown" /\ magic # "null" THEN magic ELSE fromType
        isValidFormat == format \in {"jpeg", "png", "gif"}
        isSizeValid == outcome.head.sizeInMB < 5
        extension == formatFromExtension(url.ext)
    IN IF ~url.present
       THEN [accessible |-> FALSE, isValid |-> FALSE, error |-> "Invalid or missing URL"]
       ELSE IF outcome.head.kind = "notOk"
       THEN [accessible |-> FALSE, isValid |-> FALSE, error |-> "HTTP status"]
       ELSE IF outcome.head.kind = "ok"
       THEN [accessible |-> TRUE, format |-> format, isWebP |-> format = "webp",
             isValidFormat |-> isValidFormat, isSizeValid |-> isSizeValid,
             isValid |-> isValidFormat /\ isSizeValid]
       ELSE IF magic # "null"
       THEN [accessible |-> TRUE, format |-> magic, isWebP |-> magic = "webp",
             isValidFormat |-> magic \in {"jpeg", "png", "gif"},
             isValid |-> magic \in {"jpeg", "png", "gif"}]
       ELSE [accessible |-> FALSE, error |-> "fetch failed", format |-> extension,
             isWebP |-> extension = "webp",
             isValidFormat |-> extension \in {"jpeg", "png", "gif"},
             isValid |-> extension \in {"jpeg", "png", "gif"}]

\* fetchRobotsTxt; an exception of parseRobotsTxt ends in the catch block
fetchRobotsTxt(baseUrl, outcome) ==
    LET NoRules(extra) == [accessible |-> FALSE, crawlerRules |-> [a \in {} |-> NullObj],
                           blockedCrawlers |-> << >>] @@ extra
    IN IF ~baseUrl.present
       THEN NoRules([error |-> "Invalid or missing baseUrl", allowedCrawlers |-> << >>])
       ELSE IF outcome.get.kind = "notOk"
       THEN NoRules([status |-> 404, allowedCrawlers |-> MAJOR_AI_CRAWLERS])
       ELSE IF outcome.get.kind = "ok" /\ ~parseRobotsTxtThrows(outcome.get.content)
       THEN parseRobotsTxt(outcome.get.content)
       ELSE NoRules([error |-> IF outcome.get.kind = "ok" THEN "TypeError" ELSE "fetch failed",
                     allowedCrawlers |-> << >>])

\* fetchLlmsTxt: one HEAD request per file, the errors of each ignored
fetchLlmsTxt(baseUrl, outcome) ==
    LET results == [found |-> FALSE, llmsTxt |-> [found |-> FALSE],
                    llmsFullTxt |-> [found |-> FALSE]]
    IN IF ~baseUrl.present
       THEN results @@ [error |-> "Invalid or missing baseUrl"]
       ELSE [found |-> outcome.first.kind = "ok" \/ outcome.second.kind = "ok",
             llmsTxt |-> [found |-> outcome.first.kind = "ok"],
             llmsFullTxt |-> [found |-> outcome.second.kind = "ok"]]

\* new Date(header).toISOString(): a RangeError for a header that is no date
toISOStringThrows(header) == header = "not a date"

fetchLastModified_Uncaught(url, outcome) ==
    IF ~url.present
    THEN [accessible |-> FALSE, error |-> "Invalid or missing URL", lastModified |-> ""]
    ELSE IF outcome.head.kind = "reject"
    THEN [accessible |-> FALSE, error |-> "fetch failed", lastModified |-> ""]
    ELSE IF outcome.head.kind = "notOk"
    THEN [accessible |-> FALSE, status |-> 404, lastModified |-> ""]
    ELSE IF toISOStringThrows(outcome.head.lastModified)
    THEN Rejected
    ELSE [accessible |-> TRUE, lastModified |-> outcome.head.lastModified]

\* fetchLastModified; "" stands for a null lastModified
fetchLastModified(url, outcome) ==
    IF ~url.present
    THEN [accessible |-> FALSE, error |-> "Invalid or missing URL", lastModified |-> ""]
    ELSE IF outcome.head.kind = "reject"
    THEN [accessible |-> FALSE, error |-> "fetch failed", lastModified |-> ""]
    ELSE IF outcome.head.kind = "notOk"
    THEN [accessible |-> FALSE, status |-> 404, lastModified |-> ""]
    ELSE IF toISOStringThrows(outcome.head.lastModified)
    THEN [accessible |-> FALSE, error |-> "Invalid time value", lastModified |-> ""]
    ELSE [accessible |-> TRUE, lastModified |-> outcome.head.lastModified]

\* the requests the service worker answers with a fetch, and what the
\* network can do with the fetches of each
FetchRequests ==
    {[type |-> t, url |-> u] :
        t \in {"VERIFY_IMAGE_FORMAT", "FETCH_ROBOTS_TXT", "FETCH_LLMS_TXT",
               "FETCH_LAST_MODIFIED"},
        u \in {NoUrl, Url("jpg"), Url("webp"), Url("")}}

FetchOutcomes(type) ==
    CASE type = "VERIFY_IMAGE_FORMAT" ->
            {[head |-> h, magic |-> m] :
                h \in {Reject, NotOk}
                      \cup {Ok([contentType |-> c, sizeInMB |-> mb]) :
                              c \in {"image/jpeg", "image/webp", ""}, mb \in {0, 6}},
                m \in {"null", "jpeg", "webp"}}
      [] type = "FETCH_ROBOTS_TXT" ->
            {[get |-> g] : g \in {Reject, NotOk}
                                 \cup {Ok([content |-> c]) : c \in RobotsContents}}
      [] type = "FETCH_LLMS_TXT" ->
            {[first |-> a, second |-> b] :
                a \in {Reject, NotOk, [kind |-> "ok"]},
                b \in {Reject, NotOk, [kind |-> "ok"]}}
      [] OTHER ->
            {[head |-> h] :
                h \in {Reject, NotOk}
                      \cup {Ok([lastModified |-> d]) :
                              d \in {"", "2024-01-01T00:00:00.000Z", "not a date"}}}

InitWorker ==
    /\ ScoringAtRest
    /\ ExtractionAtRest
    /\ PanelAtRest
    /\ WorkerAtRest

\* chrome.runtime.onMessage: one of the four fetch requests arrives
ReceiveFetchRequest ==
    /\ workerPc \in {"idle", "answered"}
    /\ fetchRequest' \in FetchRequests
    /\ fetchOutcome' = NullObj
    /\ fetchResult' = NullObj
    /\ responses' = << >>
    /\ workerPc' = "fetching"
    /\ UNCHANGED <<scoringVars, extractionVars, panelVars>>

\* the promise of the fetch function settles
SettleFetch ==
    /\ workerPc = "fetching"
    /\ \E outcome \in FetchOutcomes(fetchRequest.type) :
          /\ fetchOutcome' = outcome
          /\ fetchResult' =
                CASE fetchRequest.type = "VERIFY_IMAGE_FORMAT" ->
                        verifyImageFormat(fetchRequest.url, outcome)
                  [] fetchRequest.type = "FETCH_ROBOTS_TXT" ->
                        fetchRobotsTxt(fetchRequest.url, outcome)
                  [] fetchRequest.type = "FETCH_LLMS_TXT" ->
                        fetchLlmsTxt(fetchRequest.url, outcome)
                  [] OTHER -> fetchLastModified(fetchRequest.url, outcome)
    /\ workerPc' = "settled"
    /\ UNCHANGED <<fetchRequest, responses, scoringVars, extractionVars, panelVars>>

\* .then(sendResponse).catch(err => sendResponse({ error: err.message, ... }))
SendResponse ==
    /\ workerPc = "settled"
    /\ responses' = Append(responses, IF fetchResult = Rejected
                                      THEN [error |-> "rejected"]
                                      ELSE fetchResult)
    /\ workerPc' = "answered"
    /\ UNCHANGED <<fetchRequest, fetchOutcome, fetchResult,
                   scoringVars, extractionVars, panelVars>>

NextWorker == ReceiveFetchRequest \/ SettleFetch \/ SendResponse

SpecWorker == InitWorker /\ [][NextWorker]_vars

----------------------------------------------------------------------------
(* Properties *)

Done == pc = "done"

FaqIds == {"faq-schema-missing", "faq-schema-and-content-missing", "faq-content-missing"}

\* how many of the recommendations shown carry the id
CountOf(id) == Cardinality({i \in 1..Len(recommendations) : recommendations[i].id = id})

FaqCount == CountOf("faq-schema-missing") + CountOf("faq-schema-and-content-missing")
            + CountOf("faq-content-missing")

NoFaqSchema == extractedData.structuredData.schemas.faq = NullObj

FaqContentCount == extractedData.contentQuality.faq.count

\* impact rank high < medium < low
ImpactLevel(impact) == CASE impact = "high" -> 0 [] impact = "medium" -> 1 [] OTHER -> 2

\* position of the recommendation in the order it was pushed
PushedAt(rec) ==
    LET pushed == pushedRecommendations(scoreResult, extractedData, imageVerification)
    IN CHOOSE i \in 1..Len(pushed) : pushed[i] = rec

AllFactors ==
    UNION {{scoreResult.categoryScores[Categories[c]].factors[i] :
                i \in 1..Len(scoreResult.categoryScores[Categories[c]].factors)} :
           c \in 1..Len(Categories)}

\* C1: the recommendations are in ascending priority; within one priority
\* high impact comes before medium before low; entries equal on both keep the
\* order in which they were pushed
C1_SortedByPriorityThenImpact ==
    Done =>
        \A i, j \in 1..Len(recommendations) :
            i < j =>
                LET a == recommendations[i]
                    b == recommendations[j]
                IN /\ a.priority <= b.priority
                   /\ a.priority = b.priority => ImpactLevel(a.impact) <= ImpactLevel(b.impact)
                   /\ (a.priority = b.priority /\ a.impact = b.impact)
                        => PushedAt(a) < PushedAt(b)

\* C2, as stated: at most one FAQ-related recommendation in every state
C2_AtMostOneFaqRecommendation == Done => FaqCount <= 1

\* C2, amended: at most one FAQ-related recommendation, except that a page
\* with one or two FAQs and no FAQ schema gets exactly faq-schema-missing and
\* faq-content-missing, once each
C2_AtMostOneFaqUnlessFewFaqsAndNoSchema ==
    Done =>
        IF NoFaqSchema /\ FaqContentCount \in 1..2
        THEN /\ CountOf("faq-schema-missing") = 1
             /\ CountOf("faq-content-missing") = 1
             /\ CountOf("faq-schema-and-content-missing") = 0
        ELSE FaqCount <= 1

C2_Witness ==
    /\ Done
    /\ NoFaqSchema
    /\ FaqContentCount = 2
    /\ FaqCount = 2

\* C3: with no FAQ content and no FAQ schema the only FAQ-related
\* recommendation is faq-schema-and-content-missing
C3_OnlyCombinedFaqRecommendation ==
    (Done /\ NoFaqSchema /\ FaqContentCount = 0) =>
        /\ CountOf("faq-schema-and-content-missing") = 1
        /\ CountOf("faq-content-missing") = 0
        /\ CountOf("faq-schema-missing") = 0

C3_Witness ==
    /\ Done
    /\ NoFaqSchema
    /\ FaqContentCount = 0
    /\ CountOf("faq-schema-and-content-missing") = 1

\* C4: every recommendation's priority is PRIORITY_MATRIX[impact][effort] for
\* the impact and effort it ends up with, a value in 1..5
C4_PriorityFromMatrix ==
    Done =>
        \A i \in 1..Len(recommendations) :
            LET r == recommendations[i]
            IN /\ r.impact \in DOMAIN PRIORITY_MATRIX
               /\ r.effort \in DOMAIN PRIORITY_MATRIX[r.impact]
               /\ r.priority = PRIORITY_MATRIX[r.impact][r.effort]
               /\ r.priority \in 1..5

\* a need-context page where compatibility-missing was raised to high impact
C4_Witness ==
    /\ Done
    /\ context = "need"
    /\ \E i \in 1..Len(recommendations) :
          /\ recommendations[i].id = "compatibility-missing"
          /\ recommendations[i].impact = "high"
    /\ \E i \in 1..Len(recommendations) :
          /\ recommendations[i].id = "reviews-low-count"
          /\ recommendations[i].impact = "medium"

\* C5: each of the six category scores is a number in [0, 100]
C5_CategoryScoresInRange ==
    Done =>
        \A c \in 1..Len(Categories) :
            LET score == scoreResult.categoryScores[Categories[c]].score
            IN score # NaN /\ score >= 0 /\ score <= 1000

\* C6: totalScore is the rounded weighted sum of the category scores and an
\* integer in 0..100
C6_TotalScoreRoundedSumInRange ==
    Done =>
        /\ scoreResult.totalScore # NaN
        /\ scoreResult.totalScore = WeightedTotal(scoreResult.categoryScores)
        /\ scoreResult.totalScore \in 0..100

\* C7: the six category weights sum to 1.0 and every result, in every
\* context, carries these weights
C7_CategoryWeightsSumToOne ==
    /\ CATEGORY_WEIGHTS.structuredData + CATEGORY_WEIGHTS.protocolMeta
       + CATEGORY_WEIGHTS.contentQuality + CATEGORY_WEIGHTS.contentStructure
       + CATEGORY_WEIGHTS.authorityTrust + CATEGORY_WEIGHTS.aiDiscoverability = 100
    /\ Done =>
          /\ DOMAIN scoreResult.categoryScores = DOMAIN CATEGORY_WEIGHTS
          /\ \A c \in DOMAIN CATEGORY_WEIGHTS :
                scoreResult.categoryScores[c].weight = CATEGORY_WEIGHTS[c]

C7_Witness ==
    /\ Done
    /\ context = "want"
    /\ scoreResult.categoryScores.aiDiscoverability.weight = 10

\* grades from best to worst
GradeRank(grade) ==
    CASE grade = "A" -> 4 [] grade = "B" -> 3 [] grade = "C" -> 2 [] grade = "D" -> 1
      [] OTHER -> 0

\* C8: the grade follows from totalScore alone (A from 90, B from 80, C from
\* 70, D from 60, F otherwise) and a higher totalScore never has a worse grade
C8_GradeFromTotalScore ==
    Done =>
        LET t == scoreResult.totalScore
            g == scoreResult.grade
        IN /\ g = "A" <=> (t # NaN /\ t >= 90)
           /\ g = "B" <=> (t # NaN /\ 80 <= t /\ t < 90)
           /\ g = "C" <=> (t # NaN /\ 70 <= t /\ t < 80)
           /\ g = "D" <=> (t # NaN /\ 60 <= t /\ t < 70)
           /\ g = "F" <=> (t = NaN \/ t < 60)
           /\ \A s \in 0..100 :
                 (t # NaN /\ s >= t) => GradeRank(getGrade(s)) >= GradeRank(g)

C8_Witness ==
    /\ Done
    /\ scoreResult.totalScore # NaN
    /\ scoreResult.totalScore >= 80
    /\ scoreResult.grade \in {"A", "B"}

\* C9: every factor has 0 <= points <= maxPoints
C9_FactorPointsWithinMax ==
    Done =>
        \A f \in AllFactors :
            /\ f.points # NaN
            /\ f.maxPoints # NaN
            /\ 0 <= f.points
            /\ f.points <= f.maxPoints

\* C10: an og:image verified as WebP makes the 'og:image Format' factor fail
\* with 0 points and critical, whatever the other inputs
C10_WebPFailsFormatFactor ==
    (Done /\ imageVerification # NullObj /\ Field(imageVerification, "isWebP", FALSE)) =>
        LET factors == scoreResult.categoryScores.protocolMeta.factors
            format == {i \in 1..Len(factors) : factors[i].name = "og:image Format"}
        IN /\ Cardinality(format) = 1
           /\ \A i \in format :
                 /\ factors[i].status = "fail"
                 /\ factors[i].points = 0
                 /\ factors[i].critical

\* a .jpg og:image URL whose verification answers WebP
C10_Witness ==
    /\ Done
    /\ imageVerification # NullObj
    /\ Field(imageVerification, "isWebP", FALSE)
    /\ extractedData.metaTags.openGraph.image.ext = "jpg"
    /\ Truthy(extractedData.metaTags.openGraph.title)

\* the 'AI Crawler Access' factors of the result
CrawlerFactors ==
    LET factors == scoreResult.categoryScores.aiDiscoverability.factors
    IN {factors[i] : i \in {j \in 1..Len(factors) : factors[j].name = "AI Crawler Access"}}

\* C11: robots.txt inaccessible with an error gives warning and half of
\* maxPoints; inaccessible without an error gives pass and maxPoints;
\* accessible gives the points nearest to maxPoints times the fraction of
\* crawlers not blocked; fail, with 0 points and critical, occurs exactly when
\* every crawler is blocked
C11_CrawlerAccessMapping ==
    Done =>
        LET robots == aiDiscoverabilityData.robots
            blocked == Field(robots, "blockedCrawlers", 0)
            allowed == Field(robots, "allowedCrawlers", 0)
            max == 10 * FACTOR_WEIGHTS.aiDiscoverability.aiCrawlerAccess
        IN /\ Cardinality(CrawlerFactors) = 1
           /\ \A f \in CrawlerFactors :
                 /\ f.maxPoints = max
                 /\ (robots.accessible = "false" /\ robots.error)
                       => (f.status = "warning" /\ 2 * f.points = max)
                 /\ (robots.accessible = "false" /\ ~robots.error)
                       => (f.status = "pass" /\ f.points = max)
                 /\ robots.accessible = "true"
                       => /\ f.points % 10 = 0
                          /\ 2 * (f.points * (blocked + allowed) - max * allowed)
                                <= 10 * (blocked + allowed)
                          /\ 2 * (max * allowed - f.points * (blocked + allowed))
                                <= 10 * (blocked + allowed)
                 /\ f.status = "fail"
                       <=> (robots.accessible = "true" /\ allowed = 0)
                 /\ f.status = "fail" => (f.points = 0 /\ f.critical)
                 /\ f.critical => f.status = "fail"

\* a robots.txt blocking ten of the fourteen crawlers: warning, 10 of 35 points
C11_Witness ==
    /\ Done
    /\ aiDiscoverabilityData.robots.accessible = "true"
    /\ Field(aiDiscoverabilityData.robots, "blockedCrawlers", 0) = 10
    /\ \E f \in CrawlerFactors : f.status = "warning" /\ f.points = 100

\* the authority-and-trust factors of the result with the given name
TrustFactors(name) ==
    LET factors == scoreResult.categoryScores.authorityTrust.factors
    IN {factors[i] : i \in {j \in 1..Len(factors) : factors[j].name = name}}

\* C12: Review Recency fails exactly when no review date was found and warns
\* when the most recent review is older than six months; Review Depth fails
\* exactly when no review text was analysed and warns when the analysed text
\* is short on average
C12_FailOnlyWithoutEvidence ==
    Done =>
        LET reviews == extractedData.trustSignals.reviews
        IN /\ \A f \in TrustFactors("Review Recency") :
                 /\ f.status = "fail" <=> reviews.hasRecentReviews = "null"
                 /\ reviews.hasRecentReviews = "false" => f.status = "warning"
           /\ \A f \in TrustFactors("Review Depth") :
                 /\ f.status = "fail" <=> reviews.reviewsAnalyzed = 0
                 /\ (reviews.reviewsAnalyzed > 0 /\ reviews.averageReviewLength < 100)
                       => f.status = "warning"

\* the other one of the contexts want and need
OtherContext(ctx) == IF ctx = "want" THEN "need" ELSE "want"

\* C13: when specifications or compatibility information are present, the
\* same data has different contentQuality scores under want and under need
C13_WantAndNeedDiffer ==
    (/\ Done
     /\ context \in {"want", "need"}
     /\ \/ extractedData.contentQuality.specifications.count >= 1
        \/ extractedData.contentQuality.productDetails.hasCompatibility) =>
        scoreResult.categoryScores.contentQuality.score
            # scoreContentQuality(OtherContext(context), extractedData.contentQuality,
                                  extractedData.aiDiscoverability).score

\* the pass has resolved the structured data of the document
HasStructuredData == passPc \in {"structured", "extracted"}

Resolved == extraction.structuredData.schemas

\* the document's scripts parsed afresh, and the entities of a parsed block
\* in the three shapes the code accepts
ParsedAfresh(doc) == [entries |-> [i \in 1..Len(doc.jsonLd) |-> JsonParse(doc.jsonLd[i])]]

EntitiesOf(script) ==
    IF script.malformed \/ script.data = NullObj THEN << >>
    ELSE IF "array" \in DOMAIN script.data THEN script.data.array
    ELSE IF "graph" \in DOMAIN script.data THEN script.data.graph
    ELSE <<script.data>>

IsProduct(e) == Field(e, "type", Absent) \in {"product", "productgroup"}

\* the first element of a non-empty set of positions
First(positions) == CHOOSE i \in positions : \A j \in positions : i <= j

\* C14: in a page with one JSON-LD block, a product whose aggregateRating is
\* a reference to a sibling AggregateRating node resolves to that node's
\* ratingValue
C14_RatingReferenceResolved ==
    (HasStructuredData /\ Len(document.jsonLd) = 1) =>
        LET items == EntitiesOf(document.jsonLd[1])
        IN \A p, n \in 1..Len(items) :
              (/\ IsProduct(items[p])
               /\ "id" \in DOMAIN items[p].aggregateRating
               /\ Field(items[n], "type", Absent) = "aggregaterating"
               /\ items[n].id = items[p].aggregateRating.id)
              => /\ Resolved.aggregateRating # NullObj
                 /\ Resolved.aggregateRating.ratingValue = items[n].ratingValue

\* the first value present among the variants' values of a property
FirstOfVariants(variants, property) ==
    LET having == {i \in 1..Len(variants) : variants[i][property] # Absent}
    IN IF having = {} THEN Absent ELSE variants[First(having)][property]

\* C15: a ProductGroup without a top-level GTIN (MPN) resolves to the first
\* GTIN (MPN) found among its variants, in order
C15_IdentifiersFromVariants ==
    (HasStructuredData /\ Len(document.jsonLd) = 1) =>
        LET items == EntitiesOf(document.jsonLd[1])
        IN \A p \in 1..Len(items) :
              (Field(items[p], "type", Absent) = "productgroup")
              => /\ items[p].gtin = Absent
                    => Resolved.product.gtin = FirstOfVariants(items[p].hasVariant, "gtin")
                 /\ items[p].mpn = Absent
                    => Resolved.product.mpn = FirstOfVariants(items[p].hasVariant, "mpn")

\* a script holding one entity, wrapped as a bare array, as an object with
\* "@graph", or as the entity itself; other scripts stay as they are
Reshaped(script, shape) ==
    IF Len(EntitiesOf(script)) # 1 THEN script
    ELSE LET e == EntitiesOf(script)[1]
         IN Script(CASE shape = "array" -> [array |-> <<e>>]
                     [] shape = "graph" -> [graph |-> <<e>>]
                     [] OTHER -> e)

ReshapedDocument(doc, shape) ==
    [doc EXCEPT !.jsonLd = [i \in 1..Len(doc.jsonLd) |-> Reshaped(doc.jsonLd[i], shape)]]

ProductSlots(schemas) ==
    <<schemas.product, schemas.offer, schemas.aggregateRating>>

RECURSIVE EntitiesFrom(_, _)
EntitiesFrom(doc, i) ==
    IF i > Len(doc.jsonLd) THEN << >>
    ELSE EntitiesOf(doc.jsonLd[i]) \o EntitiesFrom(doc, i + 1)

\* C17: of several Product entities the product slot and the aggregateRating
\* slot hold the first found, and Microdata fills a slot only when JSON-LD
\* left it empty
C17_FirstProductWins ==
    HasStructuredData =>
        LET items == EntitiesFrom(document, 1)
            products == {i \in 1..Len(items) : IsProduct(items[i])}
            rated == {i \in products : items[i].aggregateRating # NullObj}
            fromJsonLd == extractStructuredData(ParsedAfresh(document), << >>).schemas
        IN /\ products # {} => Resolved.product.name = items[First(products)].name
           /\ rated # {} =>
                 /\ Resolved.aggregateRating # NullObj
                 /\ Resolved.aggregateRating.ratingValue
                       = Field(items[First(rated)].aggregateRating, "ratingValue", NaN)
           /\ \A slot \in {"product", "offer", "aggregateRating"} :
                 fromJsonLd[slot] # NullObj => Resolved[slot] = fromJsonLd[slot]

\* the document without its malformed scripts
ValidOnly(doc) ==
    [doc EXCEPT !.jsonLd = SelectSeq(doc.jsonLd, LAMBDA script : ~script.malformed)]

\* C18: every script gets one jsonLd entry in document order, valid with
\* its data or invalid with an error, and the schema slots are those of the
\* valid scripts alone; a malformed script neither aborts the extraction nor
\* changes what the other scripts give
C18_MalformedBlocksIsolated ==
    /\ HasStructuredData =>
          LET entries == extraction.structuredData.jsonLd
          IN /\ Len(entries) = Len(document.jsonLd)
             /\ \A i \in 1..Len(entries) :
                   IF document.jsonLd[i].malformed
                   THEN ~entries[i].valid /\ "error" \in DOMAIN entries[i]
                   ELSE entries[i].valid /\ entries[i].data = document.jsonLd[i].data
             /\ Resolved = extractStructuredData(ParsedAfresh(ValidOnly(document)),
                                                 document.microdata).schemas
    /\ passPc = "threw" => extractStructuredDataThrows(ParsedAfresh(ValidOnly(document)))

C18_Witness ==
    /\ HasStructuredData
    /\ document.jsonLd = <<Malformed, Script(FirstProduct)>>
    /\ ~extraction.structuredData.jsonLd[1].valid
    /\ Resolved.product # NullObj
    /\ Resolved.product.name = "a"

\* C19: the cache is empty when a pass starts and after it has returned,
\* also when an extractor threw, and what a pass reads is parsed from the
\* document of that pass
C19_CacheLivesWithinOnePass ==
    /\ passPc \in {"idle", "cleared", "returned"} => jsonLdCache = NullObj
    /\ jsonLdCache # NullObj => jsonLdCache = ParsedAfresh(document)
    /\ HasStructuredData =>
          extraction.structuredData.jsonLd = ParsedAfresh(document).entries
    /\ passPc = "extracted" =>
          extraction.reviewRating = reviewSignalsRating(ParsedAfresh(document))

C19_Witness ==
    /\ passPc = "returned"
    /\ extraction = [error |-> "TypeError"]
    /\ document.jsonLd # << >>
    /\ jsonLdCache = NullObj

\* C20: a message reaches processResults only when its requestId is the
\* side panel's currentRequestId; stale messages and messages without a
\* request id are ignored
C20_OnlyCurrentRequestProcessed ==
    \A i \in 1..Len(processed) :
        /\ processed[i].requestId # NoRequestId
        /\ processed[i].requestId = processed[i].currentRequestId

\* C21: calculateScore and generateRecommendations return a result, and
\* never throw, for every extraction result, the one of a failed extraction
\* included
C21_ScoringNeverThrows == pc # "error"

\* the ids of recommendations the checks build without a template
InlineIds ==
    {"canonical-missing", "meta-description-missing", "faq-schema-and-content-missing",
     "specs-low", "warranty-missing", "heading-hierarchy", "brand-visibility"}

\* C22: with a template missing from the table, generateRecommendations
\* returns, its output holds no entry made for the missing id, and every
\* entry is a whole recommendation of another id
C22_MissingTemplateOmitted ==
    /\ pc # "error"
    /\ Done =>
          \A i \in 1..Len(recommendations) :
              /\ "id" \in DOMAIN recommendations[i]
              /\ recommendations[i].id \in DOMAIN templates \cup InlineIds

\* the positions of the recommendations with the given id
PositionsOf(id) ==
    {i \in 1..Len(recommendations) : Field(recommendations[i], "id", "") = id}

\* C23: for the empty document, in any context, the grade is F, the
\* 'Product Schema' factor fails, and product-schema-missing and
\* og-image-missing are both recommended with no recommendation of another
\* id ordered before either of them
C23_EmptyDocument ==
    (Done /\ extractedData = EmptyPage) =>
        /\ scoreResult.grade = "F"
        /\ \E i \in DOMAIN scoreResult.categoryScores.structuredData.factors :
              LET f == scoreResult.categoryScores.structuredData.factors[i]
              IN f.name = "Product Schema" /\ f.status = "fail"
        /\ PositionsOf("product-schema-missing") # {}
        /\ PositionsOf("og-image-missing") # {}
        /\ \A i \in PositionsOf("product-schema-missing") \cup PositionsOf("og-image-missing") :
              \A j \in 1..(i - 1) :
                  recommendations[j].id \in {"product-schema-missing", "og-image-missing"}

\* the fields every result of a fetch function carries
ResultFields(type) ==
    CASE type = "VERIFY_IMAGE_FORMAT" -> {"accessible", "isValid"}
      [] type = "FETCH_ROBOTS_TXT" -> {"accessible", "blockedCrawlers", "allowedCrawlers"}
      [] type = "FETCH_LLMS_TXT" -> {"found", "llmsTxt", "llmsFullTxt"}
      [] OTHER -> {"accessible", "lastModified"}

\* the first fetch of the request was rejected (network or CORS failure)
NetworkFailure ==
    \E field \in DOMAIN fetchOutcome \cap {"head", "get"} : fetchOutcome[field].kind = "reject"

\* C24: whatever the fetches do, the fetch functions resolve with a
\* structured result and never reject, every request gets exactly one
\* response, and a network failure of the robots.txt or Last-Modified fetch
\* gives accessible = false with an error string
C24_FetchesResolveStructured ==
    /\ workerPc \in {"settled", "answered"} =>
          /\ fetchResult # Rejected
          /\ ResultFields(fetchRequest.type) \subseteq DOMAIN fetchResult
          /\ (/\ fetchRequest.type \in {"FETCH_ROBOTS_TXT", "FETCH_LAST_MODIFIED"}
              /\ fetchRequest.url.present
              /\ NetworkFailure)
             => /\ ~fetchResult.accessible
                /\ "error" \in DOMAIN fetchResult
                /\ fetchResult.error # ""
    /\ workerPc \in {"fetching", "settled"} => responses = << >>
    /\ workerPc = "answered" => responses = <<fetchResult>>

C24_Witness ==
    /\ workerPc = "answered"
    /\ fetchRequest.type = "FETCH_ROBOTS_TXT"
    /\ fetchRequest.url.present
    /\ fetchOutcome.get.kind = "reject"
    /\ ~fetchResult.accessible
    /\ fetchResult.error = "fetch failed"
    /\ responses = <<fetchResult>>

\* the user-agent a rule line of a robots.txt stands under: the value of
\* the last user-agent line before it ("" when there is none)
AgentOf(content, i) ==
    LET above == {j \in 1..(i - 1) : content[j].directive = "user-agent"}
    IN IF above = {} THEN ""
       ELSE content[CHOOSE j \in above : \A k \in above : k <= j].value

\* the group of an agent has a rule of the given directive for the whole site
HasRootRule(content, agent, directive) ==
    \E i \in 1..Len(content) :
        /\ content[i].directive = directive
        /\ content[i].value \in {"/", "/*"}
        /\ AgentOf(content, i) = agent

HasGroup(content, agent) ==
    \E i \in 1..Len(content) :
        content[i].directive = "user-agent" /\ content[i].value = agent

ToSet(seq) == {seq[i] : i \in 1..Len(seq)}

\* C30: for every robots.txt, parseRobotsTxt returns blockedCrawlers and
\* allowedCrawlers that partition MAJOR_AI_CRAWLERS, and a crawler is blocked
\* exactly when its own group disallows the site without allowing it, or it
\* has no group and the '*' group disallows the site
C30_CrawlersPartitioned ==
    (/\ workerPc \in {"settled", "answered"}
     /\ fetchRequest.type = "FETCH_ROBOTS_TXT"
     /\ fetchRequest.url.present
     /\ fetchOutcome.get.kind = "ok")
    => LET content == fetchOutcome.get.content
           parsed == parseRobotsTxt(content)
       IN /\ ~parseRobotsTxtThrows(content)
          /\ fetchResult = parsed
          /\ ToSet(parsed.blockedCrawlers) \cap ToSet(parsed.allowedCrawlers) = {}
          /\ ToSet(parsed.blockedCrawlers) \cup ToSet(parsed.allowedCrawlers)
                = ToSet(MAJOR_AI_CRAWLERS)
          /\ Len(parsed.blockedCrawlers) + Len(parsed.allowedCrawlers) = MajorCrawlers
          /\ \A crawler \in ToSet(MAJOR_AI_CRAWLERS) :
                crawler \in ToSet(parsed.blockedCrawlers)
                <=> \/ /\ HasRootRule(content, crawler, "disallow")
                       /\ ~HasRootRule(content, crawler, "allow")
                    \/ /\ ~HasGroup(content, crawler)
                       /\ HasRootRule(content, "*", "disallow")

\* the path of the first URL ends with the path of the second
PathEndsWith(url, suffix) ==
    /\ Len(suffix.path) <= Len(url.path)
    /\ SubSeq(url.path, Len(url.path) - Len(suffix.path) + 1, Len(url.path)) = suffix.path

CanonicalFactors ==
    LET factors == scoreResult.categoryScores.protocolMeta.factors
    IN {factors[i] : i \in {j \in DOMAIN factors : factors[j].name = "Canonical URL"}}

\* C25: a canonical link that equals the normalized current URL, or whose
\* path the current URL's path ends with, makes the 'Canonical URL' factor
\* pass with full points; a canonical link for which neither holds makes it a
\* warning
C25_CanonicalValidForProductPath ==
    (Done /\ extractedData.metaTags.canonical.present) =>
        LET canonical == extractedData.metaTags.canonical.url
            valid == \/ normalizeUrl(canonical) = normalizeUrl(CurrentUrl)
                     \/ PathEndsWith(CurrentUrl, canonical)
        IN \A f \in CanonicalFactors :
              IF valid THEN f.status = "pass" /\ f.points = f.maxPoints
              ELSE f.status = "warning"

SpecificationsFactors ==
    LET factors == scoreResult.categoryScores.contentQuality.factors
    IN {factors[i] : i \in {j \in DOMAIN factors : factors[j].name = "Specifications"}}

\* C26: the Specifications factor adds min(1.5 x maxPoints, round(base x
\* technicalSpecifications multiplier)) to the raw sum of the category, which
\* is more than maxPoints for a strong signal under the need context
C26_SpecificationsCappedAtOneAndAHalf ==
    Done =>
        LET weight == Weight("contentQuality", "specificationCount")
            countScore == extractedData.contentQuality.specifications.countScore
            base == IF countScore # 0 THEN Scaled(countScore, weight) ELSE 0
            multiplied == TimesMultiplier(base, getContextMultiplier(context,
                                                                     "technicalSpecifications"))
        IN \A f \in SpecificationsFactors :
              f.points = MathMin((weight * 15) \div 10, multiplied)

DetailsExtracted == passPc = "details"

\* C27: when the warranty negative pattern matches the page text,
\* extractProductDetails returns hasWarranty = false whatever positive
\* patterns or other warranty evidence the page has; when it does not and a
\* positive pattern matches, hasWarranty = true and warrantyText holds the
\* matched substring
C27_NegativeWarrantySuppresses ==
    DetailsExtracted =>
        LET text == document.text
            details == extraction.productDetails
            matched == {m \in UNION {text[k].matches : k \in DOMAIN text} :
                            /\ m.pattern \in warrantyPatterns
                            /\ \/ details.warrantyText = substring(m.whole, 50)
                               \/ m.group # NullObj
                                  /\ details.warrantyText = substring(m.group, 50)}
        IN /\ warrantyNegative(text) => ~details.hasWarranty
           /\ (~warrantyNegative(text) /\ \E p \in warrantyPatterns : TextMatch(text, p) # NullObj)
                 => details.hasWarranty /\ matched # {}

\* C28: each analysis request the side panel starts causes at most one
\* run of processResults
C28_AtMostOneRunPerRequest ==
    \A i, j \in 1..Len(processed) :
        (processed[i].requestId # NoRequestId
         /\ processed[i].requestId = processed[j].requestId) => i = j

\* C29: under any interleaving of startAnalysis, extraction responses and
\* the fetches processResults awaits, every score result displayed derives
\* from data, image verification, network facts and context of one and the
\* same analysis request, and no error of an earlier request is shown over a
\* newer one
C29_ResultsOfOneRequest ==
    /\ displayed # NullObj =>
          /\ displayed.imageVerification = displayed.data
          /\ displayed.network = displayed.data
          /\ displayed.context = displayed.data
    /\ shownError # NullObj => shownError.request = shownError.currentRequestId

====
